---------------------------- MODULE Spec2Model ----------------------------
(***************************************************************************)
(* Wandero client simulation: the Generation Gateway (safe_llm_invoke),    *)
(* the agency state machine (StatefulWandero) with its information         *)
(* extractor, and the parallel conversation engine                         *)
(* (ParallelConversationEngine) of "Mark I Demo/Mark_6.py", together with  *)
(* the gateway variant of demo/client_simulator.py; the persona graph of   *)
(* the engine; the Mark II orchestrator with its two agents                *)
(* ("Mark II/main.py", wandero_agent.py, client_agent.py) and the          *)
(* interest level of the Mark III StateManager.                            *)
(***************************************************************************)
EXTENDS Integers, Sequences, FiniteSets, TLC

VARIABLES
    \* ---- Generation Gateway: one call of safe_llm_invoke at a time
    gw_variant,     \* which safe_llm_invoke is running: "mark6" or "demo"
    gw_pc,          \* position inside safe_llm_invoke
    gw_delay,       \* the delay_seconds argument
    gw_err,         \* str(e) of the exception last caught, as substring flags
    gw_outcomes,    \* outcomes of the llm.invoke calls made by this call
    gw_slept,       \* sleeps performed by this call, in order
    gw_ret,         \* what the call returned
    gw_done,        \* number of completed calls of safe_llm_invoke
    \* ---- one StatefulWandero driven through process_email
    w_state,        \* self.state (WanderoState)
    w_raised,       \* whether the last process_email call raised
    w_reply,        \* the reply the last process_email call returned
    \* ---- _extract_information applied to one text
    x_text,         \* the message
    x_state,        \* self.state
    x_passes,       \* number of extraction passes made over x_text
    x_raised,       \* whether the last pass raised
    \* ---- ParallelConversationEngine
    e_workers,        \* self.max_workers
    e_persona_types,  \* the persona_types argument of the latest call
    e_running,        \* whether run_parallel_conversations is in progress
    e_calls,          \* number of calls of run_parallel_conversations made
    e_convs,          \* the conversations submitted so far (futures and their frames)
    e_active,         \* self.active_conversations
    e_wanderos,       \* the StatefulWandero instances made by the calls
    e_results,        \* self.results
    e_returned,       \* the list the latest call returned
    e_now,            \* datetime.now(), in seconds
    \* ---- Mark II: ConversationOrchestrator.run_simulation
    m2_sim,           \* position inside run_simulation
    m2_scenarios,     \* the scenarios argument
    m2_index,         \* index of the scenario the for loop is at
    m2_results,       \* the local list results
    m2_pc,            \* node of the conversation graph that runs next
    m2_agent,         \* the ClientAgent / WanderoAgent data of the running graph
    m2_state,         \* the ConversationState of the running conversation
    m2_raised,        \* whether the last node call raised
    m2_steps,         \* steps the conversation graph has made in this ainvoke
    m2_low,           \* history: the latest consecutive runs of check_end that found
                      \* interest_level below 0.2
    \* ---- Mark III: StateManager
    m3_manager,       \* whether a StateManager has been constructed
    m3_state,         \* self.state
    \* ---- Mark III: run_conversation_loop of InteractiveClientAgent
    m3_pc,            \* "idle", "not_started", "check", "poll", "process", "respond",
                      \* "sleep", "exited", "raised" or "interrupted"
    m3_sent,          \* the emails the agency has sent so far have the ids 1..m3_sent
    m3_new_emails,    \* new_emails: the ids the latest get_new_emails returned
    m3_unprocessed,   \* unprocessed_emails of the latest poll
    m3_i,             \* position of the for loop in unprocessed_emails
    m3_answered,      \* the ids generate_and_send_response was called for, in order
    \* ---- one graph.invoke of the persona graph (_create_persona_graph)
    g_status,         \* "idle", "running", "returned" or "raised"
    g_node,           \* the node that runs in the next superstep
    g_steps,          \* supersteps made by this invocation
    g_calls,          \* safe_llm_invoke calls made by this invocation
    g_state,          \* the ClientState of the graph
    \* ---- Mark II: the graph of one ClientAgent, the agency's emails arriving
    f_persona,        \* key of the persona_data the ClientAgent was built with
    f_state,          \* the ConversationState the graph is invoked on
    f_mentioned,      \* the special requirements that occur in str(state["messages"])
    f_forgotten       \* the details remember_forgotten_detail has chosen, in order

gwVars == <<gw_variant, gw_pc, gw_delay, gw_err, gw_outcomes, gw_slept, gw_ret, gw_done>>
wVars == <<w_state, w_raised, w_reply>>
xVars == <<x_text, x_state, x_passes, x_raised>>
eVars == <<e_workers, e_persona_types, e_running, e_calls, e_convs, e_active,
           e_wanderos, e_results, e_returned, e_now>>

m2Vars == <<m2_sim, m2_scenarios, m2_index, m2_results, m2_pc, m2_agent, m2_state, m2_raised,
           m2_steps, m2_low>>
m3Vars == <<m3_manager, m3_state, m3_pc, m3_sent, m3_new_emails, m3_unprocessed, m3_i,
           m3_answered>>
gVars == <<g_status, g_node, g_steps, g_calls, g_state>>
fVars == <<f_persona, f_state, f_mentioned, f_forgotten>>

vars == <<gwVars, wVars, xVars, eVars, m2Vars, m3Vars, gVars, fVars>>

notGw == <<wVars, xVars, eVars, m2Vars, m3Vars, gVars, fVars>>
notW == <<gwVars, xVars, eVars, m2Vars, m3Vars, gVars, fVars>>
notX == <<gwVars, wVars, eVars, m2Vars, m3Vars, gVars, fVars>>
notE == <<gwVars, wVars, xVars, m2Vars, m3Vars, gVars, fVars>>
notM2 == <<gwVars, wVars, xVars, eVars, m3Vars, gVars, fVars>>
notM3 == <<gwVars, wVars, xVars, eVars, m2Vars, gVars, fVars>>
notG == <<gwVars, wVars, xVars, eVars, m2Vars, m3Vars, fVars>>
notF == <<gwVars, wVars, xVars, eVars, m2Vars, m3Vars, gVars>>

(***************************************************************************)
(* Bounds of the model.                                                    *)
(***************************************************************************)
MaxGatewayCalls == 2
MaxEmails == 5
MaxPasses == 2

(***************************************************************************)
(*                        GENERATION GATEWAY                               *)
(***************************************************************************)
GatewayVariants == {"mark6", "demo"}

\* delay_seconds values the nodes pass (Mark_6.py: 4, 5, 6, 7) and the default of
\* demo/client_simulator.py (2).
DelaysOf(variant) == IF variant = "mark6" THEN {4, 5, 6, 7} ELSE {2}

\* str(e) of a generation failure, as the outcome of the three substring tests the
\* gateway applies to it: "429" in str(e), "quota" in str(e).lower(),
\* "rate" in str(e).lower().
ErrorMessages == [has429 : BOOLEAN, hasQuota : BOOLEAN, hasRate : BOOLEAN]

NoError == [has429 |-> FALSE, hasQuota |-> FALSE, hasRate |-> FALSE]

\* the outcome of one llm.invoke call
Succeeded == [ok |-> TRUE, err |-> NoError]
Failed(e) == [ok |-> FALSE, err |-> e]

\* The rate-limit test of the except clause.
\* (a variant that takes every failure for a rate limit)
IsRateLimitError_Always(variant, e) == TRUE

IsRateLimitError(variant, e) ==
    IF variant = "mark6"
    THEN e.has429 \/ e.hasQuota \/ e.hasRate
    ELSE e.has429 \/ e.hasQuota

\* sleep durations (seconds)
PostDelay(variant) == IF variant = "mark6" THEN 2 ELSE 1
Cooldown(variant)  == IF variant = "mark6" THEN 45 ELSE 30

\* The inner except clause around the retry: the retry's exception is caught and the
\* retry fallback text is returned.
OnRetryFailure_Propagates == [pc |-> "raised", ret |-> "none"]

OnRetryFailure == [pc |-> "done", ret |-> "fallback_retry"]

\* After the cooldown the gateway retries (pc "retry"); a gateway that looped would go
\* back to the first call site instead.
AfterCooldown_Loops == "invoke"

AfterCooldown == "retry"

GwInit ==
    /\ gw_variant = "mark6"
    /\ gw_pc = "idle"
    /\ gw_delay = 0
    /\ gw_err = NoError
    /\ gw_outcomes = <<>>
    /\ gw_slept = <<>>
    /\ gw_ret = "none"
    /\ gw_done = 0

\* A node calls safe_llm_invoke(prompt, delay_seconds).
GwCall ==
    /\ gw_pc \in {"idle", "done"}
    /\ gw_done < MaxGatewayCalls
    /\ \E v \in GatewayVariants : \E d \in DelaysOf(v) :
          /\ gw_variant' = v
          /\ gw_delay' = d
    /\ gw_pc' = "pre_sleep"
    /\ gw_err' = NoError
    /\ gw_outcomes' = <<>>
    /\ gw_slept' = <<>>
    /\ gw_ret' = "none"
    /\ UNCHANGED gw_done
    /\ UNCHANGED notGw

\* sleep(delay_seconds) before the request.
GwPreSleep ==
    /\ gw_pc = "pre_sleep"
    /\ gw_slept' = Append(gw_slept, gw_delay)
    /\ gw_pc' = "invoke"
    /\ UNCHANGED <<gw_variant, gw_delay, gw_err, gw_outcomes, gw_ret, gw_done>>
    /\ UNCHANGED notGw

\* response = llm.invoke(prompt).content succeeds.
GwInvokeOk ==
    /\ gw_pc = "invoke"
    /\ gw_outcomes' = Append(gw_outcomes, Succeeded)
    /\ gw_pc' = "post_sleep"
    /\ UNCHANGED <<gw_variant, gw_delay, gw_err, gw_slept, gw_ret, gw_done>>
    /\ UNCHANGED notGw

\* llm.invoke raises; the except clause binds e.
GwInvokeFail ==
    /\ gw_pc = "invoke"
    /\ \E e \in ErrorMessages :
          /\ gw_err' = e
          /\ gw_outcomes' = Append(gw_outcomes, Failed(e))
    /\ gw_pc' = "classify"
    /\ UNCHANGED <<gw_variant, gw_delay, gw_slept, gw_ret, gw_done>>
    /\ UNCHANGED notGw

\* The post-request sleep, then return response.
GwReturnResponse ==
    /\ gw_pc = "post_sleep"
    /\ gw_slept' = Append(gw_slept, PostDelay(gw_variant))
    /\ gw_ret' = "response"
    /\ gw_pc' = "done"
    /\ gw_done' = gw_done + 1
    /\ UNCHANGED <<gw_variant, gw_delay, gw_err, gw_outcomes>>
    /\ UNCHANGED notGw

\* if "429" in str(e) or ...: sleep(cooldown), then the retry.
GwCooldown ==
    /\ gw_pc = "classify"
    /\ IsRateLimitError(gw_variant, gw_err)
    /\ gw_slept' = Append(gw_slept, Cooldown(gw_variant))
    /\ gw_pc' = AfterCooldown
    /\ UNCHANGED <<gw_variant, gw_delay, gw_err, gw_outcomes, gw_ret, gw_done>>
    /\ UNCHANGED notGw

\* Any other error: the generic fallback text.
GwFallbackGeneric ==
    /\ gw_pc = "classify"
    /\ ~IsRateLimitError(gw_variant, gw_err)
    /\ gw_ret' = "fallback_generic"
    /\ gw_pc' = "done"
    /\ gw_done' = gw_done + 1
    /\ UNCHANGED <<gw_variant, gw_delay, gw_err, gw_outcomes, gw_slept>>
    /\ UNCHANGED notGw

\* The retry succeeds: return response (no post-request sleep).
GwRetryOk ==
    /\ gw_pc = "retry"
    /\ gw_outcomes' = Append(gw_outcomes, Succeeded)
    /\ gw_ret' = "response"
    /\ gw_pc' = "done"
    /\ gw_done' = gw_done + 1
    /\ UNCHANGED <<gw_variant, gw_delay, gw_err, gw_slept>>
    /\ UNCHANGED notGw

\* The retry raises: except Exception as retry_error.
GwRetryFail ==
    /\ gw_pc = "retry"
    /\ \E e \in ErrorMessages : gw_outcomes' = Append(gw_outcomes, Failed(e))
    /\ gw_ret' = OnRetryFailure.ret
    /\ gw_pc' = OnRetryFailure.pc
    /\ gw_done' = gw_done + 1
    /\ UNCHANGED <<gw_variant, gw_delay, gw_err, gw_slept>>
    /\ UNCHANGED notGw

GwNext ==
    \/ GwCall
    \/ GwPreSleep
    \/ GwInvokeOk
    \/ GwInvokeFail
    \/ GwReturnResponse
    \/ GwCooldown
    \/ GwFallbackGeneric
    \/ GwRetryOk
    \/ GwRetryFail

(***************************************************************************)
(*                 MESSAGE TEXTS (client emails)                           *)
(*                                                                         *)
(* A text is a sequence of lexemes: lower-case words, the symbols          *)
(* "-", "$", "," and "&", and digit runs (natural numbers).  It stands for *)
(* the string that writes the lexemes in order with one space between      *)
(* neighbours, except that "," is written directly after the lexeme before *)
(* it, "-" is written without spaces on either side and "$" without a      *)
(* space after it: <<july, 15, -, 22>> is "july 15-22".  The substring and *)
(* regular-expression tests of the program are evaluated on that string.   *)
(***************************************************************************)
W(s) == [k |-> "w", s |-> s, n |-> 0]
N(n) == [k |-> "n", s |-> "", n |-> n]

IsNum(l) == l.k = "n"
IsW(l, s) == l.k = "w" /\ l.s = s

MaxDigits == 5

RECURSIVE Pow10(_)
Pow10(k) == IF k = 0 THEN 1 ELSE 10 * Pow10(k - 1)

\* The decimal digits of n contain the digit string of d (d of `width` digits, no
\* leading zero): the test `"12" in msg_lower` on a digit run.
HasDigits(n, d, width) ==
    \E k \in 0..MaxDigits : (n \div Pow10(k)) % Pow10(width) = d /\ n \div Pow10(k) >= d

RECURSIVE LeadingDigit(_)
LeadingDigit(n) == IF n < 10 THEN n ELSE LeadingDigit(n \div 10)

\* substring tests on msg_lower
ContainsWord(m, s) == \E i \in 1..Len(m) : IsW(m[i], s)
ContainsAnyWord(m, S) == \E i \in 1..Len(m) : m[i].k = "w" /\ m[i].s \in S
ContainsDigits(m, d, width) == \E i \in 1..Len(m) : IsNum(m[i]) /\ HasDigits(m[i].n, d, width)

\* "<digit> <word>" as a substring: a digit run ending in the digit, then the word.
ContainsNumThenWord(m, d, s) ==
    \E i \in 1..(Len(m) - 1) : IsNum(m[i]) /\ m[i].n % 10 = d /\ IsW(m[i + 1], s)

ContainsWordPair(m, s1, s2) ==
    \E i \in 1..(Len(m) - 1) : IsW(m[i], s1) /\ IsW(m[i + 1], s2)

\* "family of 4" as a substring: the digit run after "family of" starts with 4.
ContainsFamilyOf4(m) ==
    \E i \in 1..(Len(m) - 2) :
        /\ IsW(m[i], "family") /\ IsW(m[i + 1], "of")
        /\ IsNum(m[i + 2]) /\ LeadingDigit(m[i + 2].n) = 4

\* Least element of a non-empty set of positions (re.search: the leftmost match).
MinOf(S) == CHOOSE x \in S : \A y \in S : x <= y

\* (a variant for a date pattern without the "-" in its separator class)
SkipDashes_None(m, i) == i

\* index of the first lexeme at or after i that is not "-"
RECURSIVE SkipDashes(_, _)
SkipDashes(m, i) ==
    IF i <= Len(m) /\ IsW(m[i], "-") THEN SkipDashes(m, i + 1) ELSE i

\* date_pattern = r'july\s+(\d+)[-\s]+(?:to\s+)?(\d+)' matched at lexeme i:
\* "july", a digit run, any dashes, an optional "to", a digit run.
\* The result is the position of the second digit run, 0 for no match.
DateMatchAt(m, i) ==
    IF i + 1 <= Len(m) /\ IsW(m[i], "july") /\ IsNum(m[i + 1])
    THEN LET j == SkipDashes(m, i + 2)
             j2 == IF j <= Len(m) /\ IsW(m[j], "to") THEN j + 1 ELSE j
         IN  IF j2 <= Len(m) /\ IsNum(m[j2]) THEN j2
             ELSE IF j <= Len(m) /\ IsNum(m[j]) THEN j ELSE 0
    ELSE 0

DateMatches(m) == {i \in 1..Len(m) : DateMatchAt(m, i) # 0}

\* age_pattern = r'(?:ages?|aged?)\s*(\d+)\s*(?:and|&)\s*(\d+)'
AgeWords == {"age", "ages", "aged"}

AgeMatchAt(m, i) ==
    /\ i + 3 <= Len(m)
    /\ m[i].k = "w" /\ m[i].s \in AgeWords
    /\ IsNum(m[i + 1])
    /\ (IsW(m[i + 2], "and") \/ IsW(m[i + 2], "&"))
    /\ IsNum(m[i + 3])

AgeMatches(m) == {i \in 1..Len(m) : AgeMatchAt(m, i)}

\* budget_pattern = r'\$?([\d,]+)\s*[-to]+\s*\$?([\d,]+)'
\* A group [\d,]+ is a digit run or a comma, with the commas written after it.
StartsGroup(l) == IsNum(l) \/ IsW(l, ",")

RECURSIVE SkipCommas(_, _)
SkipCommas(m, i) ==
    IF i <= Len(m) /\ IsW(m[i], ",") THEN SkipCommas(m, i + 1) ELSE i

\* Words made of the letters t and o only ([-to]+ has no other letters).
ToWords == {"to", "too"}

\* [-to]+ from lexeme i: lexemes "-" and t/o-words with no space inside the match,
\* that is, no two words next to each other.  The set of positions right after a
\* possible match.
RECURSIVE SepEnds(_, _, _)
SepEnds(m, i, afterWord) ==
    IF i > Len(m) THEN {}
    ELSE IF IsW(m[i], "-") THEN {i + 1} \cup SepEnds(m, i + 1, FALSE)
    ELSE IF m[i].k = "w" /\ m[i].s \in ToWords /\ ~afterWord
         THEN {i + 1} \cup SepEnds(m, i + 1, TRUE)
    ELSE {}

\* The positions of the second group for a match starting at lexeme i ({} if none).
BudgetSecondGroups(m, i) ==
    IF i <= Len(m) /\ StartsGroup(m[i]) /\ (i = 1 \/ ~IsW(m[i], ",") \/ ~StartsGroup(m[i - 1]))
    THEN LET e == SkipCommas(m, i + 1)
         IN  {j2 \in 1..Len(m) :
                \E j \in SepEnds(m, e, FALSE) :
                    /\ j2 = (IF j <= Len(m) /\ IsW(m[j], "$") THEN j + 1 ELSE j)
                    /\ j2 <= Len(m) /\ StartsGroup(m[j2])}
    ELSE {}

BudgetMatches(m) == {i \in 1..Len(m) : BudgetSecondGroups(m, i) # {}}

\* int(group.replace(',', '')) raises ValueError when the group holds no digit.
GroupHasDigits(m, i) == IsNum(m[i])

(***************************************************************************)
(*                    STATEFUL WANDERO (the agency)                        *)
(***************************************************************************)
MissingFields == {"travel_dates", "group_size", "children_ages", "budget", "special_requirements"}

\* WanderoState of a fresh StatefulWandero.  collected_info is a dict: `has` is its
\* key set, the other fields hold the values of the keys present.
initialize_state ==
    [ collected_info |->
        [ has |-> {}, travel_dates |-> <<0, 0>>, group_size |-> 0, adults |-> 0,
          children_ages |-> <<>>, children_count |-> 0, budget_range |-> <<0, 0>> ],
      missing_info |-> <<"travel_dates", "group_size", "children_ages", "budget",
                         "special_requirements">>,
      conversation_phase |-> "greeting",
      client_name |-> "None",
      proposal_version |-> 0,
      special_requirements |-> <<>>,
      interaction_count |-> 0 ]

\* [x for x in missing_info if x != f]
Without(seq, f) == SelectSeq(seq, LAMBDA x : x # f)

\* list.remove(f): drops the first occurrence
RECURSIVE RemoveFirst(_, _)
RemoveFirst(seq, f) ==
    IF seq = <<>> THEN <<>>
    ELSE IF Head(seq) = f THEN Tail(seq)
    ELSE <<Head(seq)>> \o RemoveFirst(Tail(seq), f)

InSeq(seq, f) == \E i \in 1..Len(seq) : seq[i] = f

\* _update_phase: essential_info names the key "budget", which _extract_information
\* never stores (it stores "budget_range").
update_phase(st) ==
    LET has_essential == {"travel_dates", "group_size", "budget"} \subseteq st.collected_info.has
    IN  IF has_essential /\ st.conversation_phase = "gathering_info"
        THEN IF "children_ages" \notin st.collected_info.has
             THEN [st EXCEPT !.conversation_phase = "clarifying_details"]
             ELSE [st EXCEPT !.conversation_phase = "preparing_proposal"]
        ELSE st

\* --- what the tests of _extract_information and of the response methods find in
\* --- a text: the matches of the regular expressions and the substring tests ---
NoMatch == <<>>

\* re.search(date_pattern, msg_lower) under `if "july" in msg_lower`: the two groups
DateFound(m) ==
    IF ContainsWord(m, "july") /\ DateMatches(m) # {}
    THEN LET i == MinOf(DateMatches(m)) IN <<m[i + 1].n, m[DateMatchAt(m, i)].n>>
    ELSE NoMatch

GroupOf4Found(m) ==
    \/ ContainsNumThenWord(m, 2, "adults") \/ ContainsWordPair(m, "two", "adults")
    \/ ContainsNumThenWord(m, 4, "people") \/ ContainsWordPair(m, "four", "people")
    \/ ContainsFamilyOf4(m)

GroupOf15Found(m) ==
    /\ ContainsDigits(m, 15, 2)
    /\ (ContainsAnyWord(m, {"executive", "executives"}) \/ ContainsWord(m, "people"))

AgePairFound(m) ==
    IF AgeMatches(m) # {}
    THEN LET i == MinOf(AgeMatches(m)) IN <<m[i + 1].n, m[i + 3].n>>
    ELSE NoMatch

Has12And8(m) == ContainsDigits(m, 12, 2) /\ ContainsDigits(m, 8, 1)

\* re.search(budget_pattern, message) and the two int(...) conversions: "none" for no
\* match, "raise" when a matched group holds only commas (ValueError), else "ok"
BudgetFound(m) ==
    IF BudgetMatches(m) = {} THEN [kind |-> "none", range |-> <<0, 0>>]
    ELSE LET i == MinOf(BudgetMatches(m))
             j == MinOf(BudgetSecondGroups(m, i))
         IN  IF GroupHasDigits(m, i) /\ GroupHasDigits(m, j)
             THEN [kind |-> "ok", range |-> <<m[i].n, m[j].n>>]
             ELSE [kind |-> "raise", range |-> <<0, 0>>]

AllergWords == {"allergy", "allergies", "allergic"}
NutWords == {"nut", "nuts"}
DietWords == {"diet", "dietary"}

\* Words of the texts that contain one of "perfect", "great", "book", "proceed",
\* "confirm" as a substring.
AcceptanceWords == {"perfect", "great", "book", "booking", "proceed", "confirm", "confirmed"}

\* "change", "modify", "different", "instead", "cheaper"; "too expensive" is a pair.
ObjectionWords == {"change", "modify", "different", "instead", "cheaper"}

HasAcceptance(m) == ContainsAnyWord(m, AcceptanceWords)
HasObjection(m) == ContainsAnyWord(m, ObjectionWords) \/ ContainsWordPair(m, "too", "expensive")

TextFacts(m) ==
    [ dates      |-> DateFound(m),
      group4     |-> GroupOf4Found(m),
      group15    |-> GroupOf15Found(m),
      age_pair   |-> AgePairFound(m),
      has12and8  |-> Has12And8(m),
      budget     |-> BudgetFound(m),
      allerg     |-> ContainsAnyWord(m, AllergWords),
      nut        |-> ContainsAnyWord(m, NutWords),
      diet       |-> ContainsAnyWord(m, DietWords),
      acceptance |-> HasAcceptance(m),
      objection  |-> HasObjection(m) ]

\* --- the extraction rules of _extract_information, in program order; f is
\* --- TextFacts(message) ---
ExtractDates(st, f) ==
    IF f.dates # NoMatch
    THEN [st EXCEPT !.collected_info.has = @ \cup {"travel_dates"},
                    !.collected_info.travel_dates = f.dates,
                    !.missing_info = Without(@, "travel_dates")]
    ELSE st

ExtractGroupSize(st, f) ==
    IF f.group4
    THEN [st EXCEPT !.collected_info.has = @ \cup {"adults", "group_size"},
                    !.collected_info.adults = 2,
                    !.collected_info.group_size = 4,
                    !.missing_info = Without(@, "group_size")]
    ELSE IF f.group15
    THEN [st EXCEPT !.collected_info.has = @ \cup {"group_size"},
                    !.collected_info.group_size = 15,
                    !.missing_info = Without(@, "group_size")]
    ELSE st

ExtractAges(st, f) ==
    IF f.age_pair # NoMatch
    THEN [st EXCEPT !.collected_info.has = @ \cup {"children_ages", "children_count"},
                    !.collected_info.children_ages = f.age_pair,
                    !.collected_info.children_count = 2,
                    !.missing_info = Without(@, "children_ages")]
    ELSE IF f.has12and8
    THEN [st EXCEPT !.collected_info.has = @ \cup {"children_ages", "children_count"},
                    !.collected_info.children_ages = <<12, 8>>,
                    !.collected_info.children_count = 2,
                    !.missing_info = Without(@, "children_ages")]
    ELSE st

\* (a variant that records the budget and leaves it listed as missing)
ExtractBudget_KeepsMissing(st, f) ==
    IF f.budget.kind = "ok"
    THEN [st EXCEPT !.collected_info.has = @ \cup {"budget_range"},
                    !.collected_info.budget_range = f.budget.range]
    ELSE st

ExtractBudget(st, f) ==
    IF f.budget.kind = "ok"
    THEN [st EXCEPT !.collected_info.has = @ \cup {"budget_range"},
                    !.collected_info.budget_range = f.budget.range,
                    !.missing_info = Without(@, "budget")]
    ELSE st

ExtractSpecial(st, f) ==
    IF f.allerg
    THEN [st EXCEPT !.special_requirements = IF f.nut THEN Append(@, "nut allergy") ELSE @,
                    !.collected_info.has = @ \cup {"has_allergies"},
                    !.missing_info = IF InSeq(@, "special_requirements")
                                     THEN RemoveFirst(@, "special_requirements")
                                     ELSE @]
    ELSE st

\* _extract_information(message): [st |-> the state it leaves, raised |-> whether it
\* raised].  When the budget rule raises ValueError, the rules before it have taken
\* effect and the rules after it (special requirements, _update_phase) have not run.
extract_information(st, f) ==
    LET st3 == ExtractAges(ExtractGroupSize(ExtractDates(st, f), f), f)
    IN  IF f.budget.kind = "raise"
        THEN [st |-> st3, raised |-> TRUE]
        ELSE [st |-> update_phase(ExtractSpecial(ExtractBudget(st3, f), f)), raised |-> FALSE]

\* --- the response methods; each returns the state it leaves and the reply it
\* --- produces (the reply is named after the template that renders it) ---
greeting_response(st) ==
    [st |-> [st EXCEPT !.conversation_phase = "gathering_info"], reply |-> "greeting"]

\* missing_prompts has no entry for group_size
MissingPrompts == {"children_ages", "budget", "travel_dates", "special_requirements"}

AlmostEverything == 2

\* (a variant that greets again while much is missing)
gathering_info_response_Greets(st) ==
    LET missing_items == SelectSeq(st.missing_info, LAMBDA x : x \in MissingPrompts)
    IN  [st |-> IF Len(missing_items) <= AlmostEverything
                THEN [st EXCEPT !.conversation_phase = "clarifying_details"]
                ELSE [st EXCEPT !.conversation_phase = "greeting"],
         reply |-> "gathering_info"]

gathering_info_response(st) ==
    LET missing_items == SelectSeq(st.missing_info, LAMBDA x : x \in MissingPrompts)
    IN  [st |-> IF Len(missing_items) <= AlmostEverything
                THEN [st EXCEPT !.conversation_phase = "clarifying_details"]
                ELSE st,
         reply |-> "gathering_info"]

\* --- the price calculation of _proposal_response ---
base_adult_price == 1400
ChildDiscountPercent == 30
AirportTransfers == 200
TravelInsurance == 180
GuidedTours == 600
SpecialDietary == 100

\* int(total) as the proposal quotes it ("TOTAL INVESTMENT"), computed from the
\* state the proposal is rendered from
QuotedTotal(st) ==
    LET info == st.collected_info
        adults == IF "adults" \in info.has THEN info.adults ELSE 2
        ages == IF "children_ages" \in info.has THEN info.children_ages ELSE <<12, 8>>
        adult_total == adults * base_adult_price
        child_total == Len(ages) * ((base_adult_price * (100 - ChildDiscountPercent)) \div 100)
        services == AirportTransfers + TravelInsurance + GuidedTours
                    + (IF st.special_requirements # <<>> THEN SpecialDietary ELSE 0)
    IN  adult_total + child_total + services

proposal_response(st) ==
    [st |-> [st EXCEPT !.conversation_phase = "proposal_sent",
                       !.proposal_version = @ + 1],
     reply |-> "proposal"]

\* (a variant that sends the proposal whatever is still missing)
clarifying_response_Always(st) ==
    proposal_response([st EXCEPT !.conversation_phase = "preparing_proposal"])

clarifying_response(st) ==
    LET missing == st.missing_info
    IN  IF missing = <<>> \/ (Len(missing) = 1 /\ missing[1] = "special_requirements")
        THEN proposal_response([st EXCEPT !.conversation_phase = "preparing_proposal"])
        ELSE [st |-> st, reply |-> "clarifying"]

negotiation_response(st) == [st |-> st, reply |-> "negotiation"]

booking_confirmation(st) == [st |-> st, reply |-> "booking_confirmation"]

\* (a variant that looks for the modification words first)
handle_proposal_feedback_ObjectionFirst(st, f) ==
    IF f.objection
    THEN negotiation_response([st EXCEPT !.conversation_phase = "negotiating"])
    ELSE IF f.acceptance
    THEN booking_confirmation([st EXCEPT !.conversation_phase = "booking_confirmed"])
    ELSE [st |-> st, reply |-> "answers"]

handle_proposal_feedback(st, f) ==
    IF f.acceptance
    THEN booking_confirmation([st EXCEPT !.conversation_phase = "booking_confirmed"])
    ELSE IF f.objection
    THEN negotiation_response([st EXCEPT !.conversation_phase = "negotiating"])
    ELSE IF f.allerg \/ f.diet
    THEN [st |-> st, reply |-> "special_requirements"]
    ELSE [st |-> st, reply |-> "answers"]

\* response_method.get(phase, _default_response)(client_message)
Respond(st, f) ==
    CASE st.conversation_phase = "greeting"           -> greeting_response(st)
      [] st.conversation_phase = "gathering_info"     -> gathering_info_response(st)
      [] st.conversation_phase = "clarifying_details" -> clarifying_response(st)
      [] st.conversation_phase = "preparing_proposal" -> proposal_response(st)
      [] st.conversation_phase = "proposal_sent"      -> handle_proposal_feedback(st, f)
      [] st.conversation_phase = "negotiating"        -> negotiation_response(st)
      [] st.conversation_phase = "booking_confirmed"  -> booking_confirmation(st)
      [] OTHER                                        -> [st |-> st, reply |-> "default"]

\* process_email(client_message, client_state): f is TextFacts(client_message), name
\* is client_state's persona_name, "None" when no client_state is passed.  The result
\* holds the state the call leaves, whether it raised, and the reply returned.
process_email(st, f, name) ==
    LET st0 == [st EXCEPT !.interaction_count = @ + 1,
                          !.client_name = IF name # "None" /\ @ = "None" THEN name ELSE @]
        ex == extract_information(st0, f)
    IN  IF ex.raised
        THEN [st |-> ex.st, raised |-> TRUE, reply |-> "none"]
        ELSE LET r == Respond(ex.st, f)
             IN  [st |-> r.st, raised |-> FALSE, reply |-> r.reply]

(***************************************************************************)
(* Client texts of the model: every concatenation of at most MaxPhrases    *)
(* phrases.                                                                *)
(***************************************************************************)
MaxPhrases == 3

Phrases ==
    { <<W("family"), W("of"), N(4)>>,                 \* family of 4
      <<W("july"), N(15), W("-"), N(22)>>,            \* july 15-22
      <<W("$"), N(4000), W("-"), N(6000)>>,           \* $4000-6000
      <<W("ages"), N(12), W("and"), N(8)>>,           \* ages 12 and 8
      <<W("nut"), W("allergy")>>,                     \* nut allergy
      <<N(15), W("executives")>>,                     \* 15 executives
      <<W("hello"), W(","), W("to"), N(5)>>,          \* hello, to 5
      <<W("$"), N(1000), W("-"), N(1500)>>,           \* $1000-1500
      <<W("perfect")>>,
      <<W("cheaper")>>,
      <<W("thanks")>> }

RECURSIVE TextsUpTo(_)
TextsUpTo(k) ==
    IF k = 0 THEN {<<>>}
    ELSE LET shorter == TextsUpTo(k - 1)
         IN  shorter \cup {t \o p : t \in shorter, p \in Phrases}

Texts == TextsUpTo(MaxPhrases)

\* What the program's tests can find in a client text.
AllTextFacts == {TextFacts(m) : m \in Texts}

(***************************************************************************)
(* A StatefulWandero receiving any sequence of client emails.              *)
(***************************************************************************)
ClientNames == {"None", "Sarah Johnson", "Emma Thompson"}

WInit ==
    /\ w_state = initialize_state
    /\ w_raised = FALSE
    /\ w_reply = "none"

\* wandero.process_email(client_message, client_state)
ProcessEmail ==
    /\ w_state.interaction_count < MaxEmails
    /\ \E f \in AllTextFacts : \E name \in ClientNames :
          LET r == process_email(w_state, f, name)
          IN  /\ w_state' = r.st
              /\ w_raised' = r.raised
              /\ w_reply' = r.reply
    /\ UNCHANGED notW

(***************************************************************************)
(* _extract_information applied to one text, from the initial state.       *)
(***************************************************************************)
XIdle ==
    /\ x_text = <<>>
    /\ x_state = initialize_state
    /\ x_passes = 0
    /\ x_raised = FALSE

XInit ==
    /\ x_text \in Texts
    /\ x_state = initialize_state
    /\ x_passes = 0
    /\ x_raised = FALSE

\* self._extract_information(message)
ExtractPass ==
    /\ x_passes < MaxPasses
    /\ LET r == extract_information(x_state, TextFacts(x_text))
       IN  /\ x_state' = r.st
           /\ x_raised' = r.raised
    /\ x_passes' = x_passes + 1
    /\ UNCHANGED x_text
    /\ UNCHANGED notX

(***************************************************************************)
(*                    PARALLEL CONVERSATION ENGINE                         *)
(*                                                                         *)
(* run_parallel_conversations submits one run_single_conversation per      *)
(* entry of persona_types to a pool of max_workers threads, waits for all  *)
(* futures and returns self.results.  A conversation is followed through   *)
(* the statements of run_single_conversation that touch shared objects     *)
(* or the clock; what graph.invoke does in a round (the client side with   *)
(* its generation calls) is the environment of the engine.                 *)
(***************************************************************************)
MaxConvs == 2       \* conversations submitted over the life of one engine
MaxCalls == 2       \* calls of run_parallel_conversations on one engine
MaxWorkers == 2     \* largest max_workers
MaxClock == 1       \* seconds the clock can advance while a worker is awaited

max_rounds == 8

PersonaTypes == {"worried_parent", "budget_backpacker"}

\* PersonaLibrary.get_persona(persona_type)["name"]
PersonaName(pt) ==
    IF pt = "budget_backpacker" THEN "Emma Thompson" ELSE "Sarah Johnson"

\* client messages the environment can produce in a round
FullText ==
    <<W("$"), N(4000), W("-"), N(6000), W("family"), W("of"), N(4),
      W("july"), N(15), W("-"), N(22), W("ages"), N(12), W("and"), N(8),
      W("nut"), W("allergy"), W("perfect")>>
ThanksText == <<W("thanks")>>
CommaText == <<W("hello"), W(","), W("to"), N(5)>>

EngineTexts == {FullText, ThanksText, CommaText}
EngineFacts == [t \in EngineTexts |-> TextFacts(t)]

\* What graph.invoke(current_state, config) can do in one round: raise, return a
\* result without client messages, or return a result whose last client message is
\* a text.
Raises == [kind |-> "raise", text |-> <<>>]
NoClientMessage == [kind |-> "none", text |-> <<>>]
Says(t) == [kind |-> "text", text |-> t]

\* The behaviour of a conversation's environment: "free" leaves the setup and every
\* round open; "broken" makes the setup (persona lookup, graph construction) raise;
\* the others let the setup pass and fix what graph.invoke does in every round.
Scripts == {"free", "healthy", "looping", "crashing", "broken"}

\* whether the statements before the round loop can pass, can raise
SetupOutcomes(script) ==
    CASE script = "broken" -> {FALSE}
      [] script = "free"   -> {TRUE, FALSE}
      [] OTHER             -> {TRUE}

ClientOutcomes(script) ==
    CASE script = "healthy"  -> {Says(FullText)}
      [] script = "looping"  -> {Raises}
      [] script = "crashing" -> {Says(CommaText)}
      [] OTHER               -> {Raises, NoClientMessage} \cup {Says(t) : t \in EngineTexts}

\* f"{persona_type}_{start_time.strftime('%Y%m%d_%H%M%S')}"
ThreadId(pt, start_time) == <<pt, start_time>>

\* the dict key of the StatefulWandero a call hands to a conversation:
\* wanderos = {pt: StatefulWandero() for pt in persona_types}, a dict of the call
WanderoKey(c) == <<c.call, c.persona_type>>

\* a submitted conversation that no worker has picked up yet
NewConv(call, pt, script) ==
    [call |-> call, persona_type |-> pt, script |-> script, pc |-> "queued",
     start_time |-> 0, thread_id |-> <<>>, round_num |-> 0, errors |-> <<>>,
     all_messages |-> <<>>, phase |-> "initial_inquiry", latest_msg |-> <<>>,
     booking_confirmed |-> FALSE, future |-> "pending"]

RoundError(c, cause) == [kind |-> "round", round |-> c.round_num, cause |-> cause]
FatalError(cause) == [kind |-> "fatal", round |-> 0, cause |-> cause]

Message(role, c) == [role |-> role, round |-> c.round_num]

\* ConversationResult(...) as run_single_conversation builds it
ConversationResult(c) ==
    [persona_name |-> PersonaName(c.persona_type), persona_type |-> c.persona_type,
     thread_id |-> c.thread_id, total_messages |-> Len(c.all_messages),
     final_phase |-> c.phase, booking_confirmed |-> c.booking_confirmed,
     messages |-> c.all_messages, errors |-> c.errors]

Convs == 1..Len(e_convs)
CurrentCall(i) == e_convs[i].call = e_calls
Running(i) == e_convs[i].pc \notin {"queued", "done"}

\* dict without a key
DropKey(d, k) == [x \in DOMAIN d \ {k} |-> d[x]]
\* dict with d[k] = v
PutKey(d, k, v) == [x \in DOMAIN d \cup {k} |-> IF x = k THEN v ELSE d[x]]

EmptyDict == [k \in {} |-> k]

EIdle ==
    /\ e_workers = 1
    /\ e_persona_types = <<>>
    /\ e_running = FALSE
    /\ e_calls = 0
    /\ e_convs = <<>>
    /\ e_active = EmptyDict
    /\ e_wanderos = EmptyDict
    /\ e_results = <<>>
    /\ e_returned = <<>>
    /\ e_now = 0

UpdateConv(i, c) == e_convs' = [e_convs EXCEPT ![i] = c]

\* run_parallel_conversations(persona_types), up to the submission of the futures;
\* scripts fixes the environment of each submitted conversation
RunParallel(pts, scripts) ==
    /\ ~e_running
    /\ e_calls < MaxCalls
    /\ Len(e_convs) + Len(pts) <= MaxConvs
    /\ e_calls' = e_calls + 1
    /\ e_persona_types' = pts
    /\ e_running' = TRUE
    /\ e_wanderos' = [k \in {<<e_calls + 1, pts[n]>> : n \in 1..Len(pts)} |-> initialize_state]
    /\ e_convs' = e_convs \o [n \in 1..Len(pts) |-> NewConv(e_calls + 1, pts[n], scripts[n])]
    /\ UNCHANGED <<e_workers, e_active, e_results, e_returned, e_now>>
    /\ UNCHANGED notE

\* a second passes while a submitted conversation waits for a worker
Tick ==
    /\ \E i \in Convs : e_convs[i].pc = "queued"
    /\ e_now < MaxClock
    /\ e_now' = e_now + 1
    /\ UNCHANGED <<e_workers, e_persona_types, e_running, e_calls, e_convs, e_active,
                   e_wanderos, e_results, e_returned>>
    /\ UNCHANGED notE

\* A free worker picks up the oldest queued conversation: run_single_conversation
\* from its first statement to the registration of the conversation.  When the
\* setup raises, the outer handler records a fatal error and the return statement
\* then reads all_messages, current_state and booking_confirmed, which were never
\* bound: the call raises and its future holds the exception.
Start(i) ==
    LET c == e_convs[i]
        tid == ThreadId(c.persona_type, e_now)
        c1 == [c EXCEPT !.start_time = e_now, !.thread_id = tid]
    IN  /\ c.pc = "queued"
        /\ \A j \in 1..(i - 1) : e_convs[j].pc # "queued"
        /\ Cardinality({j \in Convs : Running(j)}) < e_workers
        /\ \E passes \in SetupOutcomes(c.script) :
              IF passes
              THEN /\ UpdateConv(i, [c1 EXCEPT !.pc = "loop"])
                   /\ e_active' = PutKey(e_active, tid,
                                         [persona |-> c.persona_type, status |-> "active",
                                          current_phase |-> "starting"])
              ELSE /\ UpdateConv(i, [c1 EXCEPT !.errors = Append(@, FatalError("setup")),
                                               !.pc = "done", !.future = "exception"])
                   /\ UNCHANGED e_active
        /\ UNCHANGED <<e_workers, e_persona_types, e_running, e_calls, e_wanderos,
                       e_results, e_returned, e_now>>
        /\ UNCHANGED notE

\* (a variant with a loop that never runs out of rounds)
LoopContinues_Forever(c) == TRUE

\* whether the for loop over range(max_rounds) has another round
LoopContinues(c) == c.round_num < max_rounds

\* the head of a round: the status update under the lock
RoundBegin(i) ==
    LET c == e_convs[i]
        c1 == [c EXCEPT !.round_num = @ + 1]
    IN  /\ c.pc = "loop"
        /\ LoopContinues(c)
        /\ IF c.thread_id \in DOMAIN e_active
           THEN /\ e_active' = [e_active EXCEPT ![c.thread_id].current_phase = c.phase]
                /\ UpdateConv(i, [c1 EXCEPT !.pc = "invoke"])
           ELSE /\ UpdateConv(i, [c1 EXCEPT !.errors = Append(@, RoundError(c1, "KeyError"))])
                /\ UNCHANGED e_active
        /\ UNCHANGED <<e_workers, e_persona_types, e_running, e_calls, e_wanderos,
                       e_results, e_returned, e_now>>
        /\ UNCHANGED notE

\* the client turn: graph.invoke and the recording of the client message
ClientTurn(i) ==
    LET c == e_convs[i]
    IN  /\ c.pc = "invoke"
        /\ \E o \in ClientOutcomes(c.script) :
              CASE o.kind = "raise" ->
                     UpdateConv(i, [c EXCEPT !.errors = Append(@, RoundError(c, "graph.invoke")),
                                             !.pc = "loop"])
                [] o.kind = "none" ->
                     UpdateConv(i, [c EXCEPT !.phase = "awaiting_response", !.pc = "cleanup"])
                [] OTHER ->
                     UpdateConv(i, [c EXCEPT !.phase = "awaiting_response",
                                             !.latest_msg = o.text,
                                             !.all_messages = Append(@, Message("client", c)),
                                             !.pc = "respond"])
        /\ UNCHANGED <<e_workers, e_persona_types, e_running, e_calls, e_active, e_wanderos,
                       e_results, e_returned, e_now>>
        /\ UNCHANGED notE

\* where a round that raised goes on
AfterRoundError == "loop"

\* The agency turn: wandero.process_email and the recording of its reply.  The call
\* is one step; two workers holding the same instance can also interleave inside it,
\* which only adds outcomes to the ones of this step.
AgencyTurn(i) ==
    LET c == e_convs[i]
        r == process_email(e_wanderos[WanderoKey(c)], EngineFacts[c.latest_msg],
                           PersonaName(c.persona_type))
    IN  /\ c.pc = "respond"
        /\ e_wanderos' = [e_wanderos EXCEPT ![WanderoKey(c)] = r.st]
        /\ IF r.raised
           THEN UpdateConv(i, [c EXCEPT !.errors = Append(@, RoundError(c, "process_email")),
                                        !.pc = AfterRoundError])
           ELSE LET confirmed == r.st.conversation_phase = "booking_confirmed"
                IN  UpdateConv(i, [c EXCEPT !.all_messages = Append(@, Message("wandero", c)),
                                            !.booking_confirmed = confirmed,
                                            !.pc = IF confirmed THEN "cleanup" ELSE "loop"])
        /\ UNCHANGED <<e_workers, e_persona_types, e_running, e_calls, e_active,
                       e_results, e_returned, e_now>>
        /\ UNCHANGED notE

\* after the loop: the conversation leaves the registry and returns its result
Cleanup(i) ==
    LET c == e_convs[i]
    IN  /\ c.pc = "cleanup" \/ (c.pc = "loop" /\ ~LoopContinues(c))
        /\ IF c.thread_id \in DOMAIN e_active
           THEN /\ e_active' = DropKey(e_active, c.thread_id)
                /\ UpdateConv(i, [c EXCEPT !.pc = "done", !.future = "result"])
           ELSE /\ UpdateConv(i, [c EXCEPT !.errors = Append(@, FatalError("KeyError")),
                                           !.pc = "done", !.future = "result"])
                /\ UNCHANGED e_active
        /\ UNCHANGED <<e_workers, e_persona_types, e_running, e_calls, e_wanderos,
                       e_results, e_returned, e_now>>
        /\ UNCHANGED notE

\* the futures of the latest call, in submission order
CurrentConvs == SubSeq(e_convs, Len(e_convs) - Len(e_persona_types) + 1, Len(e_convs))

\* the futures whose result() returns; the others are reported and skipped
Returned(convs) == SelectSeq(convs, LAMBDA c : c.future = "result")

\* every future is done: the results are collected and self.results is returned
Collect ==
    /\ e_running
    /\ \A i \in Convs : e_convs[i].pc = "done"
    /\ e_results' = e_results \o [n \in 1..Len(Returned(CurrentConvs)) |->
                                    ConversationResult(Returned(CurrentConvs)[n])]
    /\ e_returned' = e_results'
    /\ e_running' = FALSE
    /\ UNCHANGED <<e_workers, e_persona_types, e_calls, e_convs, e_active, e_wanderos, e_now>>
    /\ UNCHANGED notE

\* one call of run_single_conversation("worried_parent", StatefulWandero()) on a new
\* engine, with an environment that is free in every round
EInitConv ==
    /\ e_workers = 1
    /\ e_persona_types = <<"worried_parent">>
    /\ e_running = TRUE
    /\ e_calls = 1
    /\ e_convs = <<NewConv(1, "worried_parent", "free")>>
    /\ e_active = EmptyDict
    /\ e_wanderos = [k \in {<<1, "worried_parent">>} |-> initialize_state]
    /\ e_results = <<>>
    /\ e_returned = <<>>
    /\ e_now = 0

\* ParallelConversationEngine(max_workers)
EInitBatch ==
    /\ e_workers \in 1..MaxWorkers
    /\ e_persona_types = <<>>
    /\ e_running = FALSE
    /\ e_calls = 0
    /\ e_convs = <<>>
    /\ e_active = EmptyDict
    /\ e_wanderos = EmptyDict
    /\ e_results = <<>>
    /\ e_returned = <<>>
    /\ e_now = 0

BatchScripts == Scripts \ {"free"}

PersonaLists == UNION {[1..n -> PersonaTypes] : n \in 1..MaxConvs}

(***************************************************************************)
(*                  MARK II: ConversationOrchestrator                      *)
(*                                                                         *)
(* interest_level, abandonment_risk and discounts_offered are floats in    *)
(* the code; here they are counted in thousandths (0.5 is 500), and a      *)
(* product that is not a whole number of thousandths is rounded down.      *)
(* state["messages"] is kept as the sequence of the senders, with the      *)
(* body of its last element and the body of the last client message, the   *)
(* only bodies a node reads. Timestamps are left out.                      *)
(***************************************************************************)
MaxScenarios == 2       \* scenarios handed to one run_simulation
MaxNodeMessages == 4    \* messages appended when the nodes are called in any order

M2PersonaKeys == {"worried_parent", "budget_backpacker", "adventure_couple"}

\* PERSONAS: personality, budget["max"], _extract_group_size(travel_group) and
\* special_requirements
PERSONAS ==
    [k \in M2PersonaKeys |->
        CASE k = "worried_parent" ->
                [personality |-> "cautious", budget_max |-> 12000, group |-> 4,
                 special_requirements |->
                    {"child has peanut allergy", "need connecting rooms"}]
          [] k = "budget_backpacker" ->
                [personality |-> "budget-conscious", budget_max |-> 2000, group |-> 1,
                 special_requirements |-> {"vegetarian meals"}]
          [] k = "adventure_couple" ->
                [personality |-> "spontaneous", budget_max |-> 10000, group |-> 2,
                 special_requirements |-> {"need photography-friendly schedule"}]]

M2CompanyKeys == {"luxury_chile", "chile_adventures", "family_adventures"}

COMPANIES ==
    [k \in M2CompanyKeys |->
        CASE k = "luxury_chile" -> [type |-> "luxury", max_discount |-> 100]
          [] k = "chile_adventures" -> [type |-> "adventure", max_discount |-> 150]
          [] k = "family_adventures" -> [type |-> "family", max_discount |-> 200]]

\* a key that is in neither dictionary
UnknownKey == "unknown"

\* the keys run_simulation is called with: a known and an unknown key of each kind
ScenarioKeys == {"budget_backpacker", UnknownKey} \X {"luxury_chile", UnknownKey}

ValidScenario(sc) == sc[1] \in M2PersonaKeys /\ sc[2] \in M2CompanyKeys

\* ---- what the language model writes
ClientBodies == {"hello", "chile trip", "excited", "too expensive", "price", "authentic"}
AgentBodies == {"plain", "$5000"}
NoBody == "none"

MentionsChile(b) == b = "chile trip"
Excited(b) == b = "excited"
Rejects(b) == b = "too expensive"
PriceWord(b) == b \in {"price", "too expensive"}
AuthenticWord(b) == b = "authentic"
HasDollar(b) == b = "$5000"
MaxDollar(b) == IF b = "$5000" THEN 5000 ELSE 0

\* the answers to the sentiment prompt: a number, "nan", or text float() rejects
SentimentValues == {0 - 5000, 0 - 1000, 1000, 5000}
SentimentReplies ==
    {[kind |-> "float", value |-> v] : v \in SentimentValues}
    \cup {[kind |-> "nan", value |-> 0], [kind |-> "text", value |-> 0]}

MinI(a, b) == IF b < a THEN b ELSE a
MaxI(a, b) == IF b > a THEN b ELSE a

Clamp01_None(x) == x

\* max(0, min(1, x)); min(1, nan) is 1 because nan < 1 is false
Clamp01(x) == MaxI(0, MinI(1000, x))

AgentSender == "agent"
ClientSender == "client"

HasClientMessage(st) == \E k \in 1..Len(st.messages) : st.messages[k] = ClientSender
HasAgentMessage(st) == \E k \in 1..Len(st.messages) : st.messages[k] # ClientSender

initial_state ==
    [messages |-> <<>>, last_body |-> NoBody, last_client_body |-> NoBody,
     client_budget |-> 0, client_travel_dates |-> FALSE, client_group_size |-> FALSE,
     client_interests |-> FALSE, agent_name |-> "",
     phase |-> "introduction", interest_level |-> 500, abandonment_risk |-> 100,
     current_offer |-> 0, discounts_offered |-> 0,
     all_info_gathered |-> FALSE, ready_to_book |-> FALSE, conversation_ended |-> FALSE]

AppendAgent(st, body) ==
    [st EXCEPT !.messages = Append(@, AgentSender), !.last_body = body]

AppendClient(st, body) ==
    [st EXCEPT !.messages = Append(@, ClientSender), !.last_body = body,
               !.last_client_body = body]

\* ---- WanderoAgent
\* (a variant that opens the discovery phase)
send_introduction_Discovery(st, body) ==
    [st EXCEPT !.messages = <<AgentSender>>, !.last_body = body,
               !.last_client_body = NoBody,
               !.phase = "discovery", !.agent_name = "Maria Rodriguez"]

send_introduction(st, body) ==
    [st EXCEPT !.messages = <<AgentSender>>, !.last_body = body,
               !.last_client_body = NoBody,
               !.phase = "introduction", !.agent_name = "Maria Rodriguez"]

NothingMissing(st) ==
    /\ st.client_budget # 0
    /\ st.client_travel_dates
    /\ st.client_group_size
    /\ st.client_interests

gather_all_details(st, body) ==
    IF NothingMissing(st)
    THEN [st EXCEPT !.all_info_gathered = TRUE]
    ELSE AppendAgent(st, body)

base_price(company) ==
    CASE company.type = "luxury" -> 800
      [] company.type = "adventure" -> 350
      [] company.type = "family" -> 450
      [] OTHER -> 300

\* None.lower() in _extract_group_size, None.get in the prompt
present_proposal_raises(st) == ~st.client_group_size \/ st.client_budget = 0

present_proposal(st, body, persona, company) ==
    [AppendAgent(st, body) EXCEPT
        !.current_offer = base_price(company) * persona.group * 7,
        !.phase = "proposal"]

\* more than 20% over the budget
TooFarApart(st) == st.current_offer * 10 > st.client_budget * 12

\* None.get on client_budget or current_offer; max_discount is read in the
\* prompt but bound only in the else branch
handle_price_discussion_raises(st) ==
    st.client_budget = 0 \/ st.current_offer = 0 \/ TooFarApart(st)

handle_price_discussion_Adds(st, body, company) ==
    AppendAgent([st EXCEPT !.discounts_offered = @ + 100], body)

handle_price_discussion(st, body, company) ==
    LET applied == IF st.discounts_offered < company.max_discount
                   THEN [st EXCEPT !.discounts_offered = MinI(100, company.max_discount)]
                   ELSE st
    IN  AppendAgent(applied, body)

address_authenticity_concerns(st, body) == AppendAgent(st, body)

\* the second definition of the name in the class body, the one that is bound
handle_negotiation(st, body) == AppendAgent(st, body)

close_deal_raises(st) == st.current_offer = 0

close_deal(st, body) ==
    [AppendAgent(st, body) EXCEPT !.phase = "closing", !.conversation_ended = TRUE]

accept_decline(st, body) ==
    [AppendAgent(st, body) EXCEPT !.phase = "abandoned", !.conversation_ended = TRUE]

\* ---- the wandero_turn node of the conversation graph
EngagementFloor(st) ==
    IF Excited(st.last_client_body)
    THEN [st EXCEPT !.interest_level = MaxI(@, 700)]
    ELSE st

WanderoAction(st) ==
    IF st.messages = <<>> THEN "send_introduction"
    ELSE IF ~HasClientMessage(st) THEN "return"
    ELSE IF Rejects(st.last_client_body) THEN "accept_decline"
    ELSE IF ~st.all_info_gathered THEN "gather_all_details"
    ELSE IF st.phase = "discovery" THEN "present_proposal"
    ELSE IF st.phase \in {"proposal", "negotiation"} THEN
            IF PriceWord(st.last_client_body) THEN "handle_price_discussion"
            ELSE IF AuthenticWord(st.last_client_body) THEN "address_authenticity_concerns"
            ELSE "handle_negotiation"
    ELSE IF st.ready_to_book THEN "close_deal"
    ELSE "handle_negotiation"

\* every branch but the two early returns invokes self.llm
WanderoCallsModel(st) ==
    /\ WanderoAction(st) # "return"
    /\ ~(WanderoAction(st) = "gather_all_details" /\ NothingMissing(st))

wandero_turn_raises(st, ok) ==
    LET a == WanderoAction(st) IN
    \/ (WanderoCallsModel(st) /\ ~ok)
    \/ (a = "present_proposal" /\ present_proposal_raises(st))
    \/ (a = "handle_price_discussion" /\ handle_price_discussion_raises(st))
    \/ (a = "close_deal" /\ close_deal_raises(st))

wandero_turn(st, body, persona, company) ==
    LET a == WanderoAction(st)
        s == IF a \in {"send_introduction", "return"} THEN st ELSE EngagementFloor(st)
    IN  CASE a = "send_introduction" -> send_introduction(s, body)
          [] a = "return" -> s
          [] a = "accept_decline" -> accept_decline(s, body)
          [] a = "gather_all_details" -> gather_all_details(s, body)
          [] a = "present_proposal" -> present_proposal(s, body, persona, company)
          [] a = "handle_price_discussion" -> handle_price_discussion(s, body, company)
          [] a = "address_authenticity_concerns" -> address_authenticity_concerns(s, body)
          [] a = "close_deal" -> close_deal(s, body)
          [] OTHER -> handle_negotiation(s, body)

\* ---- ClientAgent
analyze_situation(st, reply) ==
    IF st.messages # <<>> /\ HasAgentMessage(st)
    THEN CASE reply.kind = "float" ->
                [st EXCEPT !.interest_level = Clamp01(@ + reply.value \div 5)]
           [] reply.kind = "nan" -> [st EXCEPT !.interest_level = 1000]
           [] OTHER -> st
    ELSE st

\* forgot: random.random() > 0.7 and a special requirement is in no message
route_after_analysis(st, forgot) ==
    IF st.messages = <<>> THEN "compose_initial_inquiry"
    ELSE IF forgot /\ Len(st.messages) > 3 THEN "remember_forgotten_detail"
    ELSE IF st.phase = "introduction" THEN "compose_initial_inquiry"
    ELSE IF st.phase = "discovery" /\ ~st.all_info_gathered THEN "provide_all_details"
    ELSE IF st.phase = "proposal" THEN "respond_to_proposal"
    ELSE IF st.phase = "negotiation" THEN "negotiate_or_decide"
    ELSE "send_final_decision"

compose_initial_inquiry(st, body) ==
    [AppendClient(st, body) EXCEPT
        !.client_interests = IF MentionsChile(body) THEN TRUE ELSE @]

provide_all_details(st, body, persona) ==
    [AppendClient(st, body) EXCEPT
        !.client_budget = IF @ = 0 THEN persona.budget_max ELSE @,
        !.client_travel_dates = TRUE,
        !.client_group_size = TRUE,
        !.all_info_gathered = TRUE]

\* state["messages"][-1] of an empty list
respond_to_proposal_raises(st) == st.messages = <<>>

budget_ok(st) ==
    IF HasDollar(st.last_body) /\ st.client_budget # 0
    THEN MaxDollar(st.last_body) <= st.client_budget
    ELSE TRUE

respond_to_proposal(st, body, persona) ==
    LET reacted ==
            IF persona.personality = "budget-conscious" /\ ~budget_ok(st)
            THEN [st EXCEPT !.interest_level = (@ * 7) \div 10]
            ELSE IF persona.personality = "spontaneous"
            THEN [st EXCEPT !.interest_level = MinI(@ + 200, 900)]
            ELSE st
    IN  [AppendClient(reacted, body) EXCEPT !.phase = "negotiation"]

\* (a variant that accepts on interest alone)
Decision_IgnoresDiscount(st, persona) ==
    IF st.interest_level < 300 THEN "decline"
    ELSE IF st.interest_level > 700 THEN "accept"
    ELSE IF persona.personality = "budget-conscious" THEN "negotiate"
    ELSE "think"

Decision(st, persona) ==
    IF st.interest_level < 300 THEN "decline"
    ELSE IF st.interest_level > 700 /\ st.discounts_offered > 0 THEN "accept"
    ELSE IF persona.personality = "budget-conscious" THEN "negotiate"
    ELSE "think"

negotiate_or_decide(st, body, persona) ==
    LET decision == Decision(st, persona) IN
    IF decision \in {"accept", "decline"}
    THEN [AppendClient(st, body) EXCEPT !.conversation_ended = TRUE,
                                        !.ready_to_book = (decision = "accept")]
    ELSE AppendClient(st, body)

send_final_decision(st) == [st EXCEPT !.conversation_ended = TRUE]

remember_forgotten_detail(st, body) == AppendClient(st, body)

\* ---- the client_turn node: agent.graph.ainvoke(state)
ClientCallsModel(node) == node # "send_final_decision"

client_turn_raises(st, reply, forgot, ok) ==
    LET node == route_after_analysis(analyze_situation(st, reply), forgot) IN
    \/ (ClientCallsModel(node) /\ ~ok)
    \/ (node = "respond_to_proposal" /\ respond_to_proposal_raises(st))

client_turn(st, reply, forgot, body, persona) ==
    LET s == analyze_situation(st, reply)
        node == route_after_analysis(s, forgot)
    IN  CASE node = "compose_initial_inquiry" -> compose_initial_inquiry(s, body)
          [] node = "remember_forgotten_detail" -> remember_forgotten_detail(s, body)
          [] node = "provide_all_details" -> provide_all_details(s, body, persona)
          [] node = "respond_to_proposal" -> respond_to_proposal(s, body, persona)
          [] node = "negotiate_or_decide" -> negotiate_or_decide(s, body, persona)
          [] OTHER -> send_final_decision(s)

\* ---- the check_end node and the routing after it
MessageLimit == 10

\* "excited" is the one engaged phrase among the modelled bodies
Engaged(b) == Excited(b)

\* (a variant without the message limit)
_check_conversation_end_NoLimit(st) == st

\* state.get("interest_level", 0.5) < 0.2, the interest test of the check
LowInterestAtCheck(st) == st.interest_level < 200

_check_conversation_end(st) ==
    IF st.conversation_ended THEN st
    ELSE IF Len(st.messages) > MessageLimit THEN [st EXCEPT !.conversation_ended = TRUE]
    ELSE IF HasClientMessage(st) /\ Engaged(st.last_client_body) THEN st
    ELSE IF LowInterestAtCheck(st) /\ Len(st.messages) > MessageLimit
         THEN [st EXCEPT !.abandonment_risk = 900, !.conversation_ended = TRUE]
    ELSE st

_route_conversation_IgnoresEnded(st) ==
    IF st.messages = <<>> THEN "wandero_turn"
    ELSE IF st.agent_name = "" \/ st.messages[Len(st.messages)] = AgentSender
         THEN "client_turn"
    ELSE "wandero_turn"

\* agent_name in last_sender: the empty string is in every string
_route_conversation(st) ==
    IF st.conversation_ended THEN "end"
    ELSE IF st.messages = <<>> THEN "wandero_turn"
    ELSE IF st.agent_name = "" \/ st.messages[Len(st.messages)] = AgentSender
         THEN "client_turn"
    ELSE "wandero_turn"

Outcome(st) ==
    IF st.ready_to_book THEN "BOOKING_CONFIRMED"
    ELSE IF st.conversation_ended /\ st.interest_level < 400 THEN "CLIENT_DECLINED"
    ELSE IF st.phase = "abandoned" THEN "ABANDONED"
    ELSE "FOLLOW_UP"

Count(seq, x) == Cardinality({k \in 1..Len(seq) : seq[k] = x})

_generate_summary(sc, st) ==
    [scenario |-> sc, outcome |-> Outcome(st),
     total_emails |-> Len(st.messages),
     client_emails |-> Count(st.messages, ClientSender),
     wandero_emails |-> Len(st.messages) - Count(st.messages, ClientSender),
     final_interest_level |-> st.interest_level,
     discounts_offered |-> st.discounts_offered]

InvalidResult == [error |-> "Invalid persona or company"]

\* graph.ainvoke(initial_state, {"recursion_limit": 25}): GraphRecursionError is
\* raised when the graph has made that many steps without reaching END
M2RecursionLimit == 25

RecursionLimitReached == m2_steps >= M2RecursionLimit

\* ---- run_simulation
M2Idle ==
    /\ m2_sim = "idle"
    /\ m2_scenarios = <<>>
    /\ m2_index = 0
    /\ m2_results = <<>>
    /\ m2_pc = "none"
    /\ m2_agent = [persona |-> "none", company |-> "none"]
    /\ m2_state = initial_state
    /\ m2_raised = FALSE
    /\ m2_steps = 0
    /\ m2_low = 0

ScenarioLists == UNION {[1..n -> ScenarioKeys] : n \in 1..MaxScenarios}

RunSimulation(scenarios) ==
    /\ m2_sim = "idle"
    /\ m2_sim' = "loop"
    /\ m2_scenarios' = scenarios
    /\ m2_index' = 1
    /\ UNCHANGED <<m2_results, m2_pc, m2_agent, m2_state, m2_raised, m2_steps, m2_low>>
    /\ UNCHANGED notM2

\* run_conversation up to graph.ainvoke; with an unknown key it returns the error
\* dictionary, run_simulation appends it and result['outcome'] raises KeyError
RunConversation ==
    /\ m2_sim = "loop"
    /\ m2_index <= Len(m2_scenarios)
    /\ LET sc == m2_scenarios[m2_index] IN
       IF ValidScenario(sc)
       THEN /\ m2_sim' = "conversation"
            /\ m2_agent' = [persona |-> sc[1], company |-> sc[2]]
            /\ m2_state' = initial_state
            /\ m2_pc' = "wandero_turn"
            /\ m2_steps' = 0
            /\ m2_low' = 0
            /\ UNCHANGED <<m2_results, m2_raised>>
       ELSE /\ m2_sim' = "crashed"
            /\ m2_results' = Append(m2_results, InvalidResult)
            /\ UNCHANGED <<m2_agent, m2_state, m2_pc, m2_raised, m2_steps, m2_low>>
    /\ UNCHANGED <<m2_scenarios, m2_index>>
    /\ UNCHANGED notM2

M2WanderoTurn(body, ok) ==
    /\ m2_sim = "conversation"
    /\ m2_pc = "wandero_turn"
    /\ IF RecursionLimitReached \/ wandero_turn_raises(m2_state, ok)
       THEN /\ m2_sim' = "crashed"
            /\ m2_raised' = TRUE
            /\ UNCHANGED <<m2_state, m2_pc, m2_steps>>
       ELSE /\ m2_steps' = m2_steps + 1
            /\ m2_state' = wandero_turn(m2_state, body, PERSONAS[m2_agent.persona],
                                        COMPANIES[m2_agent.company])
            /\ m2_pc' = "check_end"
            /\ UNCHANGED <<m2_sim, m2_raised>>
    /\ UNCHANGED <<m2_scenarios, m2_index, m2_results, m2_agent, m2_low>>
    /\ UNCHANGED notM2

M2ClientTurn(reply, forgot, body, ok) ==
    /\ m2_sim = "conversation"
    /\ m2_pc = "client_turn"
    /\ IF RecursionLimitReached \/ client_turn_raises(m2_state, reply, forgot, ok)
       THEN /\ m2_sim' = "crashed"
            /\ m2_raised' = TRUE
            /\ UNCHANGED <<m2_state, m2_pc, m2_steps>>
       ELSE /\ m2_steps' = m2_steps + 1
            /\ m2_state' = client_turn(m2_state, reply, forgot, body,
                                       PERSONAS[m2_agent.persona])
            /\ m2_pc' = "check_end"
            /\ UNCHANGED <<m2_sim, m2_raised>>
    /\ UNCHANGED <<m2_scenarios, m2_index, m2_results, m2_agent, m2_low>>
    /\ UNCHANGED notM2

M2CheckEnd ==
    /\ m2_sim = "conversation"
    /\ m2_pc = "check_end"
    /\ IF RecursionLimitReached
       THEN /\ m2_sim' = "crashed"
            /\ m2_raised' = TRUE
            /\ UNCHANGED <<m2_state, m2_pc, m2_steps, m2_low>>
       ELSE /\ m2_steps' = m2_steps + 1
            /\ m2_state' = _check_conversation_end(m2_state)
            /\ m2_pc' = _route_conversation(m2_state')
            /\ m2_low' = IF LowInterestAtCheck(m2_state) THEN m2_low + 1 ELSE 0
            /\ UNCHANGED <<m2_sim, m2_raised>>
    /\ UNCHANGED <<m2_scenarios, m2_index, m2_results, m2_agent>>
    /\ UNCHANGED notM2

\* the rest of run_conversation and of the loop body of run_simulation
Summarize ==
    /\ m2_sim = "conversation"
    /\ m2_pc = "end"
    /\ m2_results' = Append(m2_results,
                            _generate_summary(m2_scenarios[m2_index], m2_state))
    /\ m2_index' = m2_index + 1
    /\ m2_sim' = "loop"
    /\ m2_pc' = "none"
    /\ UNCHANGED <<m2_scenarios, m2_agent, m2_state, m2_raised, m2_steps, m2_low>>
    /\ UNCHANGED notM2

\* _generate_report after the loop
Report ==
    /\ m2_sim = "loop"
    /\ m2_index > Len(m2_scenarios)
    /\ m2_sim' = "done"
    /\ UNCHANGED <<m2_scenarios, m2_index, m2_results, m2_pc, m2_agent, m2_state, m2_raised,
                   m2_steps, m2_low>>
    /\ UNCHANGED notM2

\* ---- the node functions of the two agents called directly, in any order
\* the client bodies written while the nodes are called in any order
NodeClientBodies == {"hello", "excited", "price"}

M2InitNodes ==
    /\ m2_sim = "nodes"
    /\ m2_scenarios = <<>>
    /\ m2_index = 0
    /\ m2_results = <<>>
    /\ m2_pc = "none"
    /\ m2_agent \in [persona : M2PersonaKeys, company : M2CompanyKeys]
    /\ m2_state = initial_state
    /\ m2_raised = FALSE
    /\ m2_steps = 0
    /\ m2_low = 0

NodeCall(raises, result) ==
    /\ m2_sim = "nodes"
    /\ IF raises
       THEN m2_raised' = TRUE /\ UNCHANGED m2_state
       ELSE m2_raised' = FALSE /\ m2_state' = result
    /\ Len(m2_state'.messages) <= MaxNodeMessages
    /\ UNCHANGED <<m2_sim, m2_scenarios, m2_index, m2_results, m2_pc, m2_agent, m2_steps,
                   m2_low>>
    /\ UNCHANGED notM2

CallWanderoTurn(body) ==
    NodeCall(wandero_turn_raises(m2_state, TRUE),
             wandero_turn(m2_state, body, PERSONAS[m2_agent.persona],
                          COMPANIES[m2_agent.company]))

CallProvideAllDetails(body) ==
    NodeCall(FALSE, provide_all_details(m2_state, body, PERSONAS[m2_agent.persona]))

CallPresentProposal(body) ==
    NodeCall(present_proposal_raises(m2_state),
             present_proposal(m2_state, body, PERSONAS[m2_agent.persona],
                              COMPANIES[m2_agent.company]))

CallHandlePriceDiscussion(body) ==
    NodeCall(handle_price_discussion_raises(m2_state),
             handle_price_discussion(m2_state, body, COMPANIES[m2_agent.company]))

CallHandleNegotiation(body) ==
    NodeCall(FALSE, handle_negotiation(m2_state, body))

CallAnalyzeSituation(reply) ==
    NodeCall(FALSE, analyze_situation(m2_state, reply))

CallRespondToProposal(body) ==
    NodeCall(respond_to_proposal_raises(m2_state),
             respond_to_proposal(m2_state, body, PERSONAS[m2_agent.persona]))

CallNegotiateOrDecide(body) ==
    NodeCall(FALSE, negotiate_or_decide(m2_state, body, PERSONAS[m2_agent.persona]))

(***************************************************************************)
(*                       MARK III: StateManager                            *)
(***************************************************************************)
M3Phases == {"initial", "information_gathering", "proposal_review", "negotiation",
             "booking_confirmation", "payment_processing", "abandoned", "completed"}

M3TerminalPhases == {"payment_processing", "abandoned"}

\* _create_initial_state: the fields of self.state that are followed here.  A message
\* is its id and its sender; final_outcome "None" and last_processed_message_id 0
\* stand for None.
M3Fresh ==
    [interest_level |-> 500, abandonment_risk |-> 100,
     phase |-> "initial", final_outcome |-> "None", conversation_ended |-> FALSE,
     messages |-> <<>>, last_processed_message_id |-> 0]

M3LoopIdle ==
    /\ m3_pc = "idle"
    /\ m3_sent = 0
    /\ m3_new_emails = <<>>
    /\ m3_unprocessed = <<>>
    /\ m3_i = 0
    /\ m3_answered = <<>>

M3Idle == m3_manager = FALSE /\ m3_state = M3Fresh /\ M3LoopIdle

\* StateManager(persona_type, wandero_email) with no state file on disk
M3Init == m3_manager = TRUE /\ m3_state = M3Fresh /\ M3LoopIdle

\* the new_level arguments: current_interest +/- 0.1 as interactive_client_agent
\* passes them, and values far outside the unit interval
M3Levels(st) ==
    {[kind |-> "float", value |-> v] :
        v \in {st.interest_level + 100, st.interest_level - 100, 0 - 5000, 5000}}
    \cup {[kind |-> "nan", value |-> 0]}

update_interest_level(st, new_level) ==
    LET level == IF new_level.kind = "nan" THEN 1000 ELSE Clamp01(new_level.value)
        risk == IF level < 300 THEN MinI(1000, st.abandonment_risk + 100)
                ELSE IF level > 700 THEN MaxI(0, st.abandonment_risk - 100)
                ELSE st.abandonment_risk
    IN  [st EXCEPT !.interest_level = level, !.abandonment_risk = risk]

UpdateInterestLevel(new_level) ==
    /\ m3_manager
    /\ m3_pc = "idle"
    /\ m3_state' = update_interest_level(m3_state, new_level)
    /\ UNCHANGED <<m3_manager, m3_pc, m3_sent, m3_new_emails, m3_unprocessed, m3_i, m3_answered>>
    /\ UNCHANGED notM3

\* StateManager.update_phase(new_phase)
StateManager_update_phase(st, new_phase) ==
    LET s == [st EXCEPT !.phase = new_phase]
    IN  IF new_phase = "payment_processing"
        THEN [s EXCEPT !.final_outcome = "booked", !.conversation_ended = TRUE]
        ELSE IF new_phase = "abandoned"
        THEN [s EXCEPT !.final_outcome = "abandoned", !.conversation_ended = TRUE]
        ELSE s

UpdatePhase(new_phase) ==
    /\ m3_manager
    /\ m3_pc = "idle"
    /\ m3_state' = StateManager_update_phase(m3_state, new_phase)
    /\ UNCHANGED <<m3_manager, m3_pc, m3_sent, m3_new_emails, m3_unprocessed, m3_i, m3_answered>>
    /\ UNCHANGED notM3

add_message(st, message) == [st EXCEPT !.messages = Append(@, message)]

is_conversation_ended(st) == st.conversation_ended

(***************************************************************************)
(*          MARK III: InteractiveClientAgent.run_conversation_loop         *)
(*                                                                         *)
(* The agency's emails arrive in the mailbox from outside; a poll returns  *)
(* any of them, seen or not.  Of an email's body only the words that       *)
(* analyze_wandero_email looks for matter.                                 *)
(***************************************************************************)
MaxInbox == 2    \* emails the agency sends

WanderoEmail(id) == [id |-> id, sender |-> "wandero"]

\* the message ids Gmail gives to what the client sends differ from all others
ClientEmail(st) ==
    [id |-> MaxInbox + 1 + Cardinality({k \in 1..Len(st.messages) :
                                          st.messages[k].sender = "client"}),
     sender |-> "client"]

\* words: which of the word lists the body matches first; tone: the comparison of
\* positive_count and negative_count
EmailBodies ==
    [words : {"welcome", "proposal", "discount", "none"},
     tone : {"positive", "negative", "neutral"}]

\* (a variant that remembers only the last processed id)
already_processed_LastId(st, id) == st.last_processed_message_id = id

\* any(msg.get('id') == email['id'] for msg in state['messages'])
already_processed(st, id) == \E k \in 1..Len(st.messages) : st.messages[k].id = id

RECURSIVE Ascending(_)
Ascending(ids) ==
    IF ids = {} THEN <<>>
    ELSE LET least == CHOOSE x \in ids : \A y \in ids : x <= y
         IN  <<least>> \o Ascending(ids \ {least})

\* analyze_wandero_email: ok is whether llm.invoke returned; an exception is logged
\* and nothing is updated
analyze_wandero_email(st, body, ok) ==
    IF ~ok THEN st
    ELSE LET phased ==
                 IF body.words = "welcome"
                 THEN IF st.messages = <<>>
                      THEN StateManager_update_phase(st, "information_gathering")
                      ELSE st
                 ELSE IF body.words = "proposal"
                 THEN StateManager_update_phase(st, "proposal_review")
                 ELSE IF body.words = "discount"
                 THEN StateManager_update_phase(st, "negotiation")
                 ELSE st
             current_interest == phased.interest_level
         IN  IF body.tone = "positive"
             THEN update_interest_level(phased, [kind |-> "float",
                                                 value |-> current_interest + 100])
             ELSE IF body.tone = "negative"
             THEN update_interest_level(phased, [kind |-> "float",
                                                 value |-> current_interest - 100])
             ELSE phased

process_wandero_email(st, id, body, ok) ==
    analyze_wandero_email(add_message(st, WanderoEmail(id)), body, ok)

\* generate_and_send_response: success is result['success'] of send_email (an
\* exception is logged and counts as no success); followup is whether
\* maybe_send_forgotten_detail sends its email
generate_and_send_response(st, success, followup) ==
    IF ~success THEN st
    ELSE LET sent == add_message(st, ClientEmail(st))
         IN  IF followup THEN add_message(sent, ClientEmail(sent)) ELSE sent

LoopFrame == UNCHANGED <<m3_manager>> /\ UNCHANGED notM3

\* start_conversation with an empty history: send_initial_inquiry
StartConversation(success) ==
    /\ m3_manager
    /\ m3_pc = "idle"
    /\ m3_state.messages = <<>>
    /\ IF success
       THEN /\ m3_state' = StateManager_update_phase(add_message(m3_state, ClientEmail(m3_state)),
                                                     "information_gathering")
            /\ m3_pc' = "check"
       ELSE /\ m3_pc' = "not_started"
            /\ UNCHANGED m3_state
    /\ UNCHANGED <<m3_sent, m3_new_emails, m3_unprocessed, m3_i, m3_answered>>
    /\ LoopFrame

InLoop == m3_pc \in {"check", "poll", "process", "respond", "sleep"}

\* the agency sends another email
AgencySends ==
    /\ InLoop
    /\ m3_sent < MaxInbox
    /\ m3_sent' = m3_sent + 1
    /\ UNCHANGED <<m3_state, m3_pc, m3_new_emails, m3_unprocessed, m3_i, m3_answered>>
    /\ LoopFrame

\* while not self.state_manager.is_conversation_ended()
WhileTest ==
    /\ m3_pc = "check"
    /\ m3_pc' = IF is_conversation_ended(m3_state) THEN "exited" ELSE "poll"
    /\ UNCHANGED <<m3_state, m3_sent, m3_new_emails, m3_unprocessed, m3_i, m3_answered>>
    /\ LoopFrame

\* get_new_emails returns the emails ids, which are then filtered
GetNewEmails(ids) ==
    /\ m3_pc = "poll"
    /\ m3_new_emails' = Ascending(ids)
    /\ m3_unprocessed' = SelectSeq(m3_new_emails', LAMBDA id : ~already_processed(m3_state, id))
    /\ m3_i' = 1
    /\ m3_pc' = IF m3_unprocessed' # <<>> THEN "process" ELSE "sleep"
    /\ UNCHANGED <<m3_state, m3_sent, m3_answered>>
    /\ LoopFrame

\* an exception in the loop body (the Gmail request fails): except Exception
LoopRaises ==
    /\ m3_pc = "poll"
    /\ m3_pc' = "raised"
    /\ UNCHANGED <<m3_state, m3_sent, m3_new_emails, m3_unprocessed, m3_i, m3_answered>>
    /\ LoopFrame

\* process_wandero_email(email) and set_last_processed_message_id(email['id'])
ProcessWanderoEmail(body, ok) ==
    /\ m3_pc = "process"
    /\ LET id == m3_unprocessed[m3_i]
       IN  m3_state' = [process_wandero_email(m3_state, id, body, ok)
                            EXCEPT !.last_processed_message_id = id]
    /\ m3_pc' = "respond"
    /\ UNCHANGED <<m3_sent, m3_new_emails, m3_unprocessed, m3_i, m3_answered>>
    /\ LoopFrame

\* generate_and_send_response(email), then the next unprocessed email
GenerateAndSendResponse(success, followup) ==
    /\ m3_pc = "respond"
    /\ m3_answered' = Append(m3_answered, m3_unprocessed[m3_i])
    /\ m3_state' = generate_and_send_response(m3_state, success, followup)
    /\ m3_i' = m3_i + 1
    /\ m3_pc' = IF m3_i < Len(m3_unprocessed) THEN "process" ELSE "sleep"
    /\ UNCHANGED <<m3_sent, m3_new_emails, m3_unprocessed>>
    /\ LoopFrame

\* await asyncio.sleep(30)
Sleep ==
    /\ m3_pc = "sleep"
    /\ m3_pc' = "check"
    /\ UNCHANGED <<m3_state, m3_sent, m3_new_emails, m3_unprocessed, m3_i, m3_answered>>
    /\ LoopFrame

\* Ctrl+C: except KeyboardInterrupt
KeyboardInterrupt ==
    /\ InLoop
    /\ m3_pc' = "interrupted"
    /\ UNCHANGED <<m3_state, m3_sent, m3_new_emails, m3_unprocessed, m3_i, m3_answered>>
    /\ LoopFrame

(***************************************************************************)
(*        THE PERSONA GRAPH OF ParallelConversationEngine (Mark_6.py)      *)
(*                                                                         *)
(* One graph.invoke(current_state, config) of the graph that               *)
(* _create_persona_graph compiles, superstep by superstep. A message is    *)
(* its role and what safe_llm_invoke returned for it.                      *)
(***************************************************************************)
\* LangGraph's default recursion_limit; config sets none
recursion_limit == 25

GatewayReturns == {"response", "fallback"}

GraphEnd == "END"

\* initial_state of run_single_conversation
ClientInitialState ==
    [messages |-> <<>>, phase |-> "initial_inquiry", forgotten_details |-> <<>>,
     mood |-> "excited", email_count |-> 0]

ClientMessage(content) == [role |-> "client", content |-> content]

WanderoMessages(st) == {k \in 1..Len(st.messages) : st.messages[k].role = "wandero"}

persona_aware_inquiry_node(st, response) ==
    [st EXCEPT !.messages = Append(@, ClientMessage(response)),
               !.phase = "awaiting_response"]

\* with no agency message in the state the mood is left as it is; more than one
\* agency message makes it "cautious" (the tests on their text need such messages too)
analyze_conversation_node(st) ==
    IF Cardinality(WanderoMessages(st)) > 1
    THEN [st EXCEPT !.mood = "cautious"]
    ELSE st

persona_aware_response_node(st, response) ==
    [st EXCEPT !.messages = Append(@, ClientMessage(response)),
               !.email_count = @ + 1]

router(st) ==
    IF st.forgotten_details # <<>> THEN "send_correction"
    ELSE IF st.phase = "completed" THEN GraphEnd
    ELSE "analyze_conversation"

GIdle ==
    /\ g_status = "idle"
    /\ g_node = "none"
    /\ g_steps = 0
    /\ g_calls = 0
    /\ g_state = ClientInitialState

GraphInvoke ==
    /\ g_status = "idle"
    /\ g_status' = "running"
    /\ g_node' = "initial_inquiry"
    /\ UNCHANGED <<g_steps, g_calls, g_state>>
    /\ UNCHANGED notG

CanStep(node) ==
    /\ g_status = "running"
    /\ g_node = node
    /\ g_steps < recursion_limit

NodeInitialInquiry(response) ==
    /\ CanStep("initial_inquiry")
    /\ g_state' = persona_aware_inquiry_node(g_state, response)
    /\ g_calls' = g_calls + 1
    /\ g_steps' = g_steps + 1
    /\ g_node' = "analyze_conversation"
    /\ UNCHANGED g_status
    /\ UNCHANGED notG

NodeAnalyzeConversation ==
    /\ CanStep("analyze_conversation")
    /\ g_state' = analyze_conversation_node(g_state)
    /\ g_steps' = g_steps + 1
    /\ g_node' = "respond"
    /\ UNCHANGED <<g_status, g_calls>>
    /\ UNCHANGED notG

NodeRespond(response) ==
    /\ CanStep("respond")
    /\ g_state' = persona_aware_response_node(g_state, response)
    /\ g_calls' = g_calls + 1
    /\ g_steps' = g_steps + 1
    /\ g_node' = router(g_state')
    /\ UNCHANGED g_status
    /\ UNCHANGED notG

\* the invocation returns at END and raises GraphRecursionError when the
\* supersteps are used up before END
GraphStop ==
    /\ g_status = "running"
    /\ g_node = GraphEnd \/ g_steps = recursion_limit
    /\ g_status' = IF g_node = GraphEnd THEN "returned" ELSE "raised"
    /\ UNCHANGED <<g_node, g_steps, g_calls, g_state>>
    /\ UNCHANGED notG

(***************************************************************************)
(*                 MARK II: THE GRAPH OF ONE CLIENT AGENT                  *)
(*                                                                         *)
(* ClientAgent.graph.ainvoke(state) is called on a conversation to which   *)
(* the agency adds emails.  The texts are written by the language model;   *)
(* of a text only the special requirements it contains matter here         *)
(* (route_after_analysis looks for each requirement in str(messages)).     *)
(***************************************************************************)
MaxClientMessages == 6    \* messages of the conversation

FIdle ==
    /\ f_persona = "none"
    /\ f_state = initial_state
    /\ f_mentioned = {}
    /\ f_forgotten = <<>>

FInit ==
    /\ f_persona \in M2PersonaKeys
    /\ f_state = initial_state
    /\ f_mentioned = {}
    /\ f_forgotten = <<>>

\* the text the language model returns for sentiment: not a number
NoSentiment == [kind |-> "text", value |-> 0]

\* [req for req in state["client_special_requirements"] if req not in str(messages)]
forgotten_items(requirements, mentioned) == requirements \ mentioned

\* the test route_after_analysis makes before it looks at the phase; random_high
\* is random.random() > 0.7
ForgotSomething(requirements, mentioned, random_high) ==
    /\ requirements # {}
    /\ random_high
    /\ forgotten_items(requirements, mentioned) # {}

\* an email of the agency is appended to state["messages"]
AgencyEmail(body, mentions) ==
    /\ f_persona # "none"
    /\ Len(f_state.messages) < MaxClientMessages
    /\ f_state' = AppendAgent(f_state, body)
    /\ f_mentioned' = f_mentioned \cup mentions
    /\ UNCHANGED <<f_persona, f_forgotten>>
    /\ UNCHANGED notF

\* agent.graph.ainvoke(state): analyze_situation, route_after_analysis and the node
\* it names; choice is what random.choice(state["client_special_requirements"])
\* returns in remember_forgotten_detail, mentions the requirements in the email
ClientGraph(random_high, choice, body, mentions) ==
    /\ f_persona # "none"
    /\ Len(f_state.messages) < MaxClientMessages
    /\ LET requirements == PERSONAS[f_persona].special_requirements
           forgot == ForgotSomething(requirements, f_mentioned, random_high)
           node == route_after_analysis(analyze_situation(f_state, NoSentiment), forgot)
       IN  /\ choice \in requirements
           /\ mentions \subseteq requirements
           /\ ~client_turn_raises(f_state, NoSentiment, forgot, TRUE)
           /\ f_state' = client_turn(f_state, NoSentiment, forgot, body,
                                     PERSONAS[f_persona])
           /\ f_mentioned' = f_mentioned \cup mentions
           /\ f_forgotten' = IF node = "remember_forgotten_detail"
                             THEN Append(f_forgotten, choice)
                             ELSE f_forgotten
    /\ UNCHANGED f_persona
    /\ UNCHANGED notF

(***************************************************************************)
(*                          SPECIFICATIONS                                 *)
(***************************************************************************)
InitGateway == GwInit /\ WInit /\ XIdle /\ EIdle /\ M2Idle /\ M3Idle /\ GIdle /\ FIdle
SpecGateway == InitGateway /\ [][GwNext]_vars

InitWandero == GwInit /\ WInit /\ XIdle /\ EIdle /\ M2Idle /\ M3Idle /\ GIdle /\ FIdle
NextWandero == ProcessEmail
SpecWandero == InitWandero /\ [][NextWandero]_vars

InitExtract == GwInit /\ WInit /\ XInit /\ EIdle /\ M2Idle /\ M3Idle /\ GIdle /\ FIdle
NextExtract == ExtractPass
SpecExtract == InitExtract /\ [][NextExtract]_vars

InitConv == GwInit /\ WInit /\ XIdle /\ EInitConv /\ M2Idle /\ M3Idle /\ GIdle /\ FIdle
NextConv ==
    \/ \E i \in Convs : Start(i)
    \/ \E i \in Convs : RoundBegin(i)
    \/ \E i \in Convs : ClientTurn(i)
    \/ \E i \in Convs : AgencyTurn(i)
    \/ \E i \in Convs : Cleanup(i)
SpecConv == InitConv /\ [][NextConv]_vars /\ WF_vars(NextConv)

InitBatch == GwInit /\ WInit /\ XIdle /\ EInitBatch /\ M2Idle /\ M3Idle /\ GIdle /\ FIdle
NextBatch ==
    \/ \E pts \in PersonaLists : \E scripts \in [1..Len(pts) -> BatchScripts] :
          RunParallel(pts, scripts)
    \/ Tick
    \/ \E i \in Convs : Start(i)
    \/ \E i \in Convs : RoundBegin(i)
    \/ \E i \in Convs : ClientTurn(i)
    \/ \E i \in Convs : AgencyTurn(i)
    \/ \E i \in Convs : Cleanup(i)
    \/ Collect
SpecBatch == InitBatch /\ [][NextBatch]_vars

\* what the language model writes during run_simulation
SimAgentBodies == {"plain"}
SimClientBodies == {"chile trip", "excited", "too expensive"}
SimSentimentReplies ==
    {[kind |-> "float", value |-> 0 - 1000], [kind |-> "float", value |-> 1000],
     [kind |-> "text", value |-> 0]}

InitSim == GwInit /\ WInit /\ XIdle /\ EIdle /\ M2Idle /\ M3Idle /\ GIdle /\ FIdle
NextSim ==
    \/ \E scenarios \in ScenarioLists : RunSimulation(scenarios)
    \/ RunConversation
    \/ \E body \in SimAgentBodies, ok \in BOOLEAN : M2WanderoTurn(body, ok)
    \/ \E reply \in SimSentimentReplies, forgot \in BOOLEAN, body \in SimClientBodies,
          ok \in BOOLEAN : M2ClientTurn(reply, forgot, body, ok)
    \/ M2CheckEnd
    \/ Summarize
    \/ Report
SpecSim == InitSim /\ [][NextSim]_vars

\* one of the two programs runs: the Mark II agents or a Mark III StateManager
InitNodes ==
    /\ GwInit /\ WInit /\ XIdle /\ EIdle /\ GIdle /\ FIdle
    /\ \/ M2InitNodes /\ M3Idle
       \/ M2Idle /\ M3Init
NextNodes ==
    \/ \E body \in AgentBodies : CallWanderoTurn(body)
    \/ \E body \in NodeClientBodies : CallProvideAllDetails(body)
    \/ \E body \in AgentBodies : CallPresentProposal(body)
    \/ \E body \in AgentBodies : CallHandlePriceDiscussion(body)
    \/ \E body \in AgentBodies : CallHandleNegotiation(body)
    \/ \E reply \in SentimentReplies : CallAnalyzeSituation(reply)
    \/ \E body \in NodeClientBodies : CallRespondToProposal(body)
    \/ \E body \in NodeClientBodies : CallNegotiateOrDecide(body)
    \/ \E new_level \in M3Levels(m3_state) : UpdateInterestLevel(new_level)
    \/ \E new_phase \in M3Phases : UpdatePhase(new_phase)
SpecNodes == InitNodes /\ [][NextNodes]_vars

InitLoop == GwInit /\ WInit /\ XIdle /\ EIdle /\ M2Idle /\ M3Init /\ GIdle /\ FIdle
LoopSteps ==
    \/ WhileTest
    \/ \E ids \in SUBSET (1..m3_sent) : GetNewEmails(ids)
    \/ \E body \in EmailBodies, ok \in BOOLEAN : ProcessWanderoEmail(body, ok)
    \/ \E success \in BOOLEAN, followup \in BOOLEAN : GenerateAndSendResponse(success, followup)
    \/ Sleep
NextLoop ==
    \/ \E success \in BOOLEAN : StartConversation(success)
    \/ AgencySends
    \/ WhileTest
    \/ \E ids \in SUBSET (1..m3_sent) : GetNewEmails(ids)
    \/ LoopRaises
    \/ \E body \in EmailBodies, ok \in BOOLEAN : ProcessWanderoEmail(body, ok)
    \/ \E success \in BOOLEAN, followup \in BOOLEAN : GenerateAndSendResponse(success, followup)
    \/ Sleep
    \/ KeyboardInterrupt
\* the loop takes its own steps as long as it runs
SpecLoop == InitLoop /\ [][NextLoop]_vars /\ WF_vars(LoopSteps)

InitGraph == GwInit /\ WInit /\ XIdle /\ EIdle /\ M2Idle /\ M3Idle /\ GIdle /\ FIdle
NextGraph ==
    \/ GraphInvoke
    \/ \E response \in GatewayReturns : NodeInitialInquiry(response)
    \/ NodeAnalyzeConversation
    \/ \E response \in GatewayReturns : NodeRespond(response)
    \/ GraphStop
SpecGraph == InitGraph /\ [][NextGraph]_vars

AllRequirements == UNION {PERSONAS[k].special_requirements : k \in M2PersonaKeys}

InitClient == GwInit /\ WInit /\ XIdle /\ EIdle /\ M2Idle /\ M3Idle /\ GIdle /\ FInit
NextClient ==
    \/ \E mentions \in SUBSET AllRequirements : AgencyEmail("plain", mentions)
    \/ \E random_high \in BOOLEAN, choice \in AllRequirements,
          mentions \in SUBSET AllRequirements :
          ClientGraph(random_high, choice, "hello", mentions)
SpecClient == InitClient /\ [][NextClient]_vars

Init == InitWandero
Next == NextWandero
Spec == SpecWandero

(***************************************************************************)
(*                              CLAIMS                                     *)
(***************************************************************************)

\* C1: safe_llm_invoke always returns a text string to its caller and never propagates
\* an exception, whatever the generation calls do (success, a throttling/quota
\* failure, any other failure, a failure of the retry): no call ends by raising, a call
\* under way can always take its next step, and a finished call has returned the
\* response or one of the two fallback strings.
C1_GatewayAlwaysReturnsText ==
    /\ gw_pc # "raised"
    /\ (gw_pc \notin {"idle", "done"} => ENABLED GwNext)
    /\ (gw_pc = "done" => gw_ret \in {"response", "fallback_retry", "fallback_generic"})

\* C1 witness: a call whose first request failed with a rate-limit error and whose
\* retry failed as well has returned the retry fallback.
C1_Witness ==
    /\ gw_pc = "done"
    /\ Len(gw_outcomes) = 2
    /\ ~gw_outcomes[1].ok /\ ~gw_outcomes[2].ok
    /\ ~IsRateLimitError(gw_variant, gw_outcomes[2].err)
    /\ gw_ret = "fallback_retry"

\* A generation failure whose message carries "429" or "quota": a rate-limit error for
\* both gateways.
RateLimitFailure(o) == ~o.ok /\ (o.err.has429 \/ o.err.hasQuota)

\* C2: during one call of safe_llm_invoke the generation capability is invoked at most
\* twice; if it fails every time with a rate-limit error it is invoked exactly twice
\* and the (retry) fallback string is returned.
C2_AtMostOneRetry ==
    /\ Len(gw_outcomes) <= 2
    /\ (gw_pc = "done" /\ (\A k \in 1..Len(gw_outcomes) : RateLimitFailure(gw_outcomes[k]))
          => Len(gw_outcomes) = 2 /\ gw_ret = "fallback_retry")

\* C2 witness: a finished call in which both requests failed with a 429 error.
C2_Witness ==
    /\ gw_pc = "done"
    /\ Len(gw_outcomes) = 2
    /\ \A k \in 1..2 : ~gw_outcomes[k].ok /\ gw_outcomes[k].err.has429
    /\ gw_ret = "fallback_retry"

\* every conversation is within 8 rounds and 16 recorded messages, two per round
WithinRounds ==
    \A i \in Convs :
        /\ e_convs[i].round_num <= 8
        /\ Len(e_convs[i].all_messages) <= 2 * e_convs[i].round_num
        /\ Len(e_convs[i].all_messages) <= 16

AllTerminated == \A i \in Convs : e_convs[i].pc = "done"

\* C3: every conversation run by run_single_conversation terminates after at most
\* max_rounds = 8 rounds and at most 16 recorded messages, whatever the client graph
\* and the agency do in a round (return, return nothing, raise).
C3_ConversationTerminates == []WithinRounds /\ <>AllTerminated

\* C3 witness: a conversation that used all 8 rounds, recorded 16 messages and ended.
C3_Witness ==
    \E i \in Convs :
        /\ e_convs[i].pc = "done"
        /\ e_convs[i].round_num = 8
        /\ Len(e_convs[i].all_messages) = 16

\* C4: when a call of run_parallel_conversations for N conversations has returned,
\* the list it returned holds exactly N results, the n-th being the result of the
\* n-th conversation requested in that call (failed conversations included).
C4_OneResultPerRequest ==
    (e_calls > 0 /\ ~e_running) =>
        /\ Len(e_returned) = Len(e_persona_types)
        /\ \A n \in 1..Len(e_returned) :
              /\ e_returned[n].persona_type = e_persona_types[n]
              /\ e_returned[n].thread_id = CurrentConvs[n].thread_id

\* C5: no two conversations of one batch carry the same thread_id in their results.
C5_DistinctThreadIds ==
    \A i, j \in Convs :
        (/\ i # j
         /\ e_convs[i].call = e_convs[j].call
         /\ e_convs[i].future = "result"
         /\ e_convs[j].future = "result")
        => e_convs[i].thread_id # e_convs[j].thread_id

HasFailed(c) == c.errors # <<>>

SameBatch(i, j) == i # j /\ e_convs[i].call = e_convs[j].call

\* the registry entry of a conversation, as the set of entries under its thread_id
RegistryEntry(c, active) == {active[k] : k \in DOMAIN active \cap {c.thread_id}}

\* C6: a conversation that fails (in its setup or in a round) has the error in the
\* errors of its own ConversationResult once the batch has returned, and none of its
\* steps changes a sibling of the same batch: the sibling's frame (messages, phase,
\* errors), its agency state and its registry entry stay what they were.
C6_FailureIsolated ==
    /\ [](\A i \in Convs :
            (~e_running /\ CurrentCall(i) /\ HasFailed(e_convs[i])) =>
                \E n \in 1..Len(e_returned) :
                    /\ e_returned[n].thread_id = e_convs[i].thread_id
                    /\ e_returned[n].errors = e_convs[i].errors)
    /\ [][\A i, j \in Convs :
            (SameBatch(i, j) /\ e_convs'[i] # e_convs[i] /\ HasFailed(e_convs'[i])) =>
                /\ e_convs'[j] = e_convs[j]
                /\ e_wanderos'[WanderoKey(e_convs[j])] = e_wanderos[WanderoKey(e_convs[j])]
                /\ RegistryEntry(e_convs[j], e_active') = RegistryEntry(e_convs[j], e_active)]_vars

\* C7: no step of a conversation reads or writes the agency instance of another
\* conversation of the batch: a step of conversation i leaves the StatefulWandero
\* handed to conversation j as it was.
C7_OwnAgencyInstance ==
    [][\A i, j \in Convs :
          (SameBatch(i, j) /\ e_convs'[i] # e_convs[i]) =>
              e_wanderos'[WanderoKey(e_convs[j])] = e_wanderos[WanderoKey(e_convs[j])]]_vars

C13_BackpackerNeverBooks ==
    (/\ w_state.client_name = "Emma Thompson"
     /\ "budget_range" \in w_state.collected_info.has
     /\ w_state.collected_info.budget_range = <<1000, 1500>>
     /\ QuotedTotal(w_state) > 5000)
    => w_state.conversation_phase # "booking_confirmed"

\* a failure whose message carries none of "429", "quota", "rate"
PlainFailure(o) == ~o.ok /\ ~o.err.has429 /\ ~o.err.hasQuota /\ ~o.err.hasRate

SleptCooldown == \E k \in 1..Len(gw_slept) : gw_slept[k] = Cooldown(gw_variant)

RoundRaised(c) == \E k \in 1..Len(c.errors) : c.errors[k].kind = "round"

C20_ClarifyingWhenOneFieldLeft ==
    [][(/\ w_state.conversation_phase = "gathering_info"
        /\ w_state'.conversation_phase = "clarifying_details")
       => Len(w_state'.missing_info) <= 1]_vars

\* The key of collected_info under which _extract_information records each field.
CollectedKey(field) ==
    CASE field = "budget" -> "budget_range"
      [] field = "special_requirements" -> "has_allergies"
      [] OTHER -> field

\* C9: between calls of process_email, known and missing partition the fixed field set:
\* each of travel_dates, group_size, children_ages, budget, special_requirements is
\* listed in missing_info (once) if and only if collected_info holds no value for it.
C9_KnownMissingPartition ==
    /\ \A i \in 1..Len(w_state.missing_info) : w_state.missing_info[i] \in MissingFields
    /\ \A i, j \in 1..Len(w_state.missing_info) :
          w_state.missing_info[i] = w_state.missing_info[j] => i = j
    /\ \A field \in MissingFields :
          InSeq(w_state.missing_info, field) <=> CollectedKey(field) \notin w_state.collected_info.has

\* C9 witness: after a call that raised in the budget rule, the dates recorded by the
\* rules before it are known and the budget is still missing.
C9_Witness ==
    /\ w_raised
    /\ "travel_dates" \in w_state.collected_info.has
    /\ ~InSeq(w_state.missing_info, "travel_dates")
    /\ InSeq(w_state.missing_info, "budget")

ContainsPhrase(m, p) ==
    \E i \in 1..(Len(m) - Len(p) + 1) : SubSeq(m, i, i + Len(p) - 1) = p

FamilyOf4Phrase == <<W("family"), W("of"), N(4)>>
JulyPhrase == <<W("july"), N(15), W("-"), N(22)>>
BudgetPhrase == <<W("$"), N(4000), W("-"), N(6000)>>

LexemesOf(p) == {p[i] : i \in 1..Len(p)}

\* words that no test of _extract_information looks at
NeutralWords == {W("thanks"), W("perfect"), W("cheaper")}

\* A text of the scenario: "family of 4", "july 15-22" and "$4000-6000" in any order,
\* with nothing else but neutral words (no age or allergy wording, no further numbers).
ScenarioText(m) ==
    /\ ContainsPhrase(m, FamilyOf4Phrase)
    /\ ContainsPhrase(m, JulyPhrase)
    /\ ContainsPhrase(m, BudgetPhrase)
    /\ \A i \in 1..Len(m) :
          m[i] \in LexemesOf(FamilyOf4Phrase) \cup LexemesOf(JulyPhrase)
                     \cup LexemesOf(BudgetPhrase) \cup NeutralWords

\* C10: one pass of _extract_information from the initial state over a text that
\* contains "family of 4", "july 15-22" and "$4000-6000" (and no age or allergy
\* wording) removes group_size, travel_dates and budget from missing_info and leaves
\* children_ages and special_requirements in it.
C10_ScenarioExtraction ==
    (x_passes = 1 /\ ScenarioText(x_text)) =>
        /\ ~x_raised
        /\ ~InSeq(x_state.missing_info, "group_size")
        /\ ~InSeq(x_state.missing_info, "travel_dates")
        /\ ~InSeq(x_state.missing_info, "budget")
        /\ InSeq(x_state.missing_info, "children_ages")
        /\ InSeq(x_state.missing_info, "special_requirements")

\* C10 witness: the pass has run over a scenario text and recorded the budget range
\* 4000-6000.
C10_Witness ==
    /\ x_passes = 1
    /\ ScenarioText(x_text)
    /\ x_state.missing_info = <<"children_ages", "special_requirements">>
    /\ x_state.collected_info.budget_range = <<4000, 6000>>


\* C11: over any sequence of agency negotiation and price-discussion actions of a
\* Mark II conversation, discounts_offered never decreases and never exceeds the
\* max_discount of the company, however often the actions are invoked.
C11_DiscountMonotoneBounded ==
    [][m2_agent.company \in M2CompanyKeys =>
          /\ m2_state'.discounts_offered >= m2_state.discounts_offered
          /\ m2_state'.discounts_offered <= COMPANIES[m2_agent.company].max_discount]_vars

\* a discount was given and the price was discussed again after it
C11_Witness ==
    /\ m2_sim = "nodes"
    /\ m2_state.discounts_offered = MinI(100, COMPANIES[m2_agent.company].max_discount)
    /\ m2_state.phase \in {"proposal", "negotiation"}
    /\ Len(m2_state.messages) >= 4
    /\ \A k \in 3..4 : m2_state.messages[k] = AgentSender

\* C12: interest_level stays within [0, 1] after every update (sentiment adjustment,
\* engagement floor, budget penalty, proposal boost, +/-0.1 steps), in the Mark II
\* conversation state and in the Mark III StateManager.
C12_InterestInUnitInterval ==
    /\ m2_state.interest_level \in 0..1000
    /\ m3_state.interest_level \in 0..1000

\* a proposal was answered, the sentiment adjustment hit the upper clamp and the
\* last client message is one that sets the engagement floor
C12_Witness ==
    /\ m2_sim = "nodes"
    /\ m2_state.phase = "negotiation"
    /\ m2_state.interest_level = 1000
    /\ Excited(m2_state.last_client_body)


TerminalPhases == {"closing", "abandoned"}

\* C14: in a Mark II conversation conversation_ended goes from false to true at most
\* once and never back, and once it is true or the phase is terminal (closing,
\* abandoned) no side takes another turn and no message is appended.
C14_EndedOnceAndFinal ==
    [][m2_sim = "conversation" =>
          /\ (m2_state.conversation_ended => m2_state'.conversation_ended)
          /\ (m2_state.conversation_ended \/ m2_state.phase \in TerminalPhases) =>
                /\ m2_state'.messages = m2_state.messages
                /\ m2_pc' \notin {"wandero_turn", "client_turn"}
                /\ ~(m2_pc \in {"wandero_turn", "client_turn"})]_vars

\* the agency accepted a decline and the graph came to its end
C14_Witness ==
    /\ m2_sim = "conversation"
    /\ m2_pc = "end"
    /\ m2_state.phase = "abandoned"
    /\ m2_state.conversation_ended

\* C15: an unknown persona or company key aborts only that conversation, before any
\* turn is taken for it; every other conversation of the batch still runs and
\* produces its result.
C15_UnknownKeyAbortsOnlyItself ==
    (m2_sim \in {"done", "crashed"} /\ ~m2_raised) =>
        \A k \in 1..Len(m2_scenarios) :
            ValidScenario(m2_scenarios[k]) =>
                /\ Len(m2_results) >= k
                /\ "outcome" \in DOMAIN m2_results[k]

EndedByBudgetOnly(st) ==
    /\ st.conversation_ended
    /\ Len(st.messages) > MessageLimit
    /\ st.phase \notin TerminalPhases
    /\ ~st.ready_to_book

\* C16: a Mark II conversation that ended only because the message budget was used
\* up, with no side in a terminal phase, is labelled FOLLOW_UP, never declined,
\* abandoned or booking confirmed.
C16_BudgetEndIsFollowUp ==
    (m2_sim = "conversation" /\ m2_pc = "end" /\ EndedByBudgetOnly(m2_state)) =>
        Outcome(m2_state) = "FOLLOW_UP"


\* C18: a client turn of run_single_conversation, one invocation of the client graph,
\* makes exactly one safe_llm_invoke call and appends exactly one message before
\* control goes back to the engine.
C18_OneGatewayCallPerClientTurn ==
    /\ g_calls <= 1
    /\ g_status \in {"returned", "raised"} =>
          g_calls = 1 /\ Len(g_state.messages) = 1

\* The fields a proposal needs: all of MissingFields but special_requirements.
RequiredFields == MissingFields \ {"special_requirements"}

RequiredKnown(st) ==
    \A field \in RequiredFields :
        /\ ~InSeq(st.missing_info, field)
        /\ CollectedKey(field) \in st.collected_info.has

ProposalPhases == {"preparing_proposal", "proposal_sent", "negotiating", "booking_confirmed"}

\* C21: the agency is past clarifying_details (preparing_proposal or later), or has
\* sent a proposal, only in a state where travel_dates, group_size, children_ages and
\* budget are all known: missing_info is empty or holds only special_requirements.
C21_ProposalOnlyWhenRequiredKnown ==
    (\/ w_state.conversation_phase \in ProposalPhases
     \/ w_state.proposal_version > 0
     \/ w_reply = "proposal")
    => /\ RequiredKnown(w_state)
       /\ w_state.missing_info \in {<<>>, <<"special_requirements">>}

\* C21 witness: the call that answered in clarifying_details has just sent the first
\* proposal while special_requirements was the one field still missing.
C21_Witness ==
    /\ w_reply = "proposal"
    /\ w_state.conversation_phase = "proposal_sent"
    /\ w_state.proposal_version = 1
    /\ w_state.missing_info = <<"special_requirements">>

\* The phase in which process_email leaves the agency when it is called in state st
\* with a message of facts f and _handle_proposal_feedback is reached.
PhaseAfter(st, f) == process_email(st, f, "None").st.conversation_phase

Answered(st, f) == ~process_email(st, f, "None").raised

C23_NegotiatingCanBook ==
    w_state.conversation_phase = "negotiating" =>
        \A f \in AllTextFacts :
            (Answered(w_state, f) /\ f.acceptance)
                => PhaseAfter(w_state, f) = "booking_confirmed"

\* The texts that hold one phrase written for one field, and that field.
AgesPhrase == <<W("ages"), N(12), W("and"), N(8)>>
AllergyPhrase == <<W("nut"), W("allergy")>>

FieldOfPhrase(m) ==
    CASE m = JulyPhrase      -> "travel_dates"
      [] m = FamilyOf4Phrase -> "group_size"
      [] m = AgesPhrase      -> "children_ages"
      [] m = BudgetPhrase    -> "budget"
      [] m = AllergyPhrase   -> "special_requirements"
      [] OTHER               -> "none"

\* C24: one pass of _extract_information from the initial state over a text written
\* for one field ("july 15-22", "family of 4", "ages 12 and 8", "$4000-6000", "nut
\* allergy") marks that field known and leaves the four other fields missing.
C24_OneRuleOneField ==
    (x_passes = 1 /\ FieldOfPhrase(x_text) # "none") =>
        /\ ~x_raised
        /\ x_state.missing_info = Without(initialize_state.missing_info, FieldOfPhrase(x_text))

\* C25: a second pass of _extract_information over the same text leaves
\* collected_info, missing_info and special_requirements as the first pass left them.
C25_ExtractionIdempotent ==
    (x_passes = 2 /\ ~x_raised) =>
        LET once == extract_information(initialize_state, TextFacts(x_text)).st
        IN  /\ x_state.collected_info = once.collected_info
            /\ x_state.missing_info = once.missing_info
            /\ x_state.special_requirements = once.special_requirements

\* The total the proposal would quote if it charged every person of the group:
\* base_adult_price for each of group_size persons, reduced by the child discount
\* for each child of children_ages, plus the fixed services, with the dietary
\* arrangements when special_requirements is known.
PerPersonTotal(st) ==
    LET info == st.collected_info
        children == Len(info.children_ages)
        persons == info.group_size
        child_price == (base_adult_price * (100 - ChildDiscountPercent)) \div 100
        dietary == IF ~InSeq(st.missing_info, "special_requirements")
                   THEN SpecialDietary ELSE 0
    IN  (persons - children) * base_adult_price + children * child_price
        + AirportTransfers + TravelInsurance + GuidedTours + dietary

\* C26: the total quoted in a proposal is the per-person price for every person of
\* the group (children at the discounted price) plus the fixed services, the dietary
\* arrangements included exactly when special_requirements is known.
C26_QuoteCoversGroup ==
    w_reply = "proposal" => QuotedTotal(w_state) = PerPersonTotal(w_state)

\* discounts_offered after the agency answers a price concern in state st
DiscountAfterPriceStep(st, company) ==
    handle_price_discussion(st, "plain", company).discounts_offered

\* C27: a negotiation step of the agency that answers a price concern raises
\* discounts_offered by min(0.1, max_discount - discounts_offered), so that repeated
\* steps end at the company's max_discount.
C27_DiscountStepsReachCeiling ==
    (/\ m2_sim = "nodes"
     /\ ~handle_price_discussion_raises(m2_state))
    => LET company == COMPANIES[m2_agent.company]
           headroom == company.max_discount - m2_state.discounts_offered
       IN  DiscountAfterPriceStep(m2_state, company)
               = m2_state.discounts_offered + MinI(100, headroom)

LowInterest(st) == st.interest_level < 300
HighInterestWithDiscount(st) == st.interest_level > 700 /\ st.discounts_offered > 0

\* C28: negotiate_or_decide, called in any state the node functions reach, decides
\* decline exactly when interest_level < 0.3, accept exactly when interest_level > 0.7
\* and discounts_offered > 0, and negotiate or think otherwise; it sets
\* conversation_ended exactly on accept or decline (and leaves it as it was
\* otherwise), and it leaves ready_to_book TRUE exactly on accept.
C28_DecisionThresholds ==
    m2_sim = "nodes" =>
        \A body \in NodeClientBodies :
            LET persona == PERSONAS[m2_agent.persona]
                decision == Decision(m2_state, persona)
                after == negotiate_or_decide(m2_state, body, persona)
                decides == LowInterest(m2_state) \/ HighInterestWithDiscount(m2_state)
            IN  /\ decision = "decline" <=> LowInterest(m2_state)
                /\ decision = "accept" <=> HighInterestWithDiscount(m2_state)
                /\ decision \in {"negotiate", "think"} <=> ~decides
                /\ after.conversation_ended = (decides \/ m2_state.conversation_ended)
                /\ decides => (after.ready_to_book = HighInterestWithDiscount(m2_state))
                /\ ~decides => (after.ready_to_book = m2_state.ready_to_book)
                /\ after.messages = Append(m2_state.messages, ClientSender)

\* C28 witness: the client has accepted: after a discount was offered and with
\* interest above 0.7 its last message ended the conversation ready to book.
C28_Witness ==
    /\ m2_sim = "nodes"
    /\ ~m2_raised
    /\ m2_state.conversation_ended
    /\ m2_state.ready_to_book
    /\ m2_state.interest_level > 700
    /\ m2_state.discounts_offered > 0
    /\ m2_state.messages # <<>>
    /\ m2_state.messages[Len(m2_state.messages)] = ClientSender

\* C29: remember_forgotten_detail runs only when more than 3 messages have been
\* exchanged, and the detail it chooses is one that was in no earlier message and
\* that it has not chosen before.
C29_ForgottenDetailIsNew ==
    [][Len(f_forgotten') > Len(f_forgotten) =>
          LET detail == f_forgotten'[Len(f_forgotten')]
          IN  /\ Len(f_state.messages) > 3
              /\ detail \notin f_mentioned
              /\ \A k \in 1..Len(f_forgotten) : f_forgotten[k] # detail]_vars

\* C30: a conversation in which two or more consecutive runs of check_end have found
\* interest_level below 0.2 has been ended, whether or not the message cap was reached.
C30_SustainedLowInterestEnds ==
    (m2_sim = "conversation" /\ m2_low >= 2) => m2_state.conversation_ended

\* C31: a Mark II conversation never holds more than 11 messages: a check that finds
\* more than 10 messages ends the conversation; the conversation graph makes fewer
\* steps than its recursion limit of 25, every step of it counting towards that
\* bound, and so it reaches END unless a node raises.
C31_ConversationBounded ==
    [][m2_sim = "conversation" =>
          /\ Len(m2_state'.messages) <= MessageLimit + 1
          /\ m2_steps' < M2RecursionLimit
          /\ ~RecursionLimitReached
          /\ m2_sim' = "conversation" => m2_steps' = m2_steps + 1
          /\ (m2_pc = "check_end" /\ m2_sim' = "conversation"
                 /\ Len(m2_state.messages) > MessageLimit)
             => (m2_state'.conversation_ended /\ m2_pc' = "end")]_vars

\* C31 witness: the graph has reached END by the message limit, with 11 messages
\* after 22 steps.
C31_Witness ==
    /\ m2_sim = "conversation"
    /\ m2_pc = "end"
    /\ m2_state.conversation_ended
    /\ Len(m2_state.messages) = MessageLimit + 1
    /\ m2_steps = 2 * (MessageLimit + 1)

\* The place of a phase in the agency's order of phases.
PhaseRank(phase) ==
    CASE phase = "greeting"           -> 1
      [] phase = "gathering_info"     -> 2
      [] phase = "clarifying_details" -> 3
      [] phase = "preparing_proposal" -> 4
      [] phase = "proposal_sent"      -> 5
      [] phase = "negotiating"        -> 6
      [] phase = "booking_confirmed"  -> 7
      [] OTHER                        -> 0

\* C32: a call of process_email never returns the agency to an earlier phase of
\* greeting, gathering_info, clarifying_details, preparing_proposal, proposal_sent,
\* negotiating / booking_confirmed, and never leaves booking_confirmed.
C32_PhaseOnlyForward ==
    [][/\ PhaseRank(w_state.conversation_phase) > 0
       /\ PhaseRank(w_state'.conversation_phase) >= PhaseRank(w_state.conversation_phase)
       /\ w_state.conversation_phase = "booking_confirmed"
             => w_state'.conversation_phase = "booking_confirmed"]_vars

\* C32 witness: the agency has gone through its phases to booking_confirmed and has
\* answered with the confirmation.
C32_Witness ==
    /\ w_state.conversation_phase = "booking_confirmed"
    /\ w_reply = "booking_confirmation"
    /\ w_state.interaction_count = MaxEmails
    /\ w_state.proposal_version = 1
    /\ ~w_raised

\* a conversation that has registered itself and whose round loop has not finished
InRoundLoop(c) == c.pc \in {"invoke", "respond"} \/ (c.pc = "loop" /\ LoopContinues(c))

\* a conversation between its registration and its removal from the registry
Registered(c) == c.pc \in {"loop", "invoke", "respond", "cleanup"}

\* every conversation in its round loop has an entry in active_conversations
C33_EntryDuringRounds ==
    \A i \in Convs : InRoundLoop(e_convs[i]) => e_convs[i].thread_id \in DOMAIN e_active

\* every entry of active_conversations belongs to a conversation that has registered
\* and not yet removed itself
C33_EntryOnlyWhileRegistered ==
    \A t \in DOMAIN e_active : \E i \in Convs : e_convs[i].thread_id = t /\ Registered(e_convs[i])

\* active_conversations is empty whenever no conversation is between its registration
\* and its removal, so also when run_parallel_conversations returns
C33_EmptyWhenQuiet ==
    (\A i \in Convs : ~Registered(e_convs[i])) => e_active = EmptyDict

\* C33: active_conversations, which is accessed only in steps made under the lock,
\* holds an entry for a conversation exactly from its start until its round loop has
\* finished, and is empty when run_parallel_conversations returns, also in
\* executions with failing rounds.
C33_RegistryTracksConversations ==
    /\ C33_EntryDuringRounds
    /\ C33_EntryOnlyWhileRegistered
    /\ C33_EmptyWhenQuiet

\* C34: an invocation of the client graph reaches END by itself: it is never stopped
\* by the recursion limit, and it has not used up its supersteps while it runs.
C34_GraphReachesEnd ==
    /\ g_status # "raised"
    /\ g_status = "running" => (g_node = GraphEnd \/ g_steps < recursion_limit)

\* C35: in a conversation started by run_conversation the phase is introduction or
\* abandoned, all_info_gathered and ready_to_book are false, no proposal has set an
\* offer and no discount has been offered; no result has the outcome
\* BOOKING_CONFIRMED.
C35_NeverPastIntroduction ==
    /\ m2_sim = "conversation" =>
          /\ m2_state.phase \in {"introduction", "abandoned"}
          /\ ~m2_state.all_info_gathered
          /\ ~m2_state.ready_to_book
          /\ m2_state.current_offer = 0
          /\ m2_state.discounts_offered = 0
          /\ Outcome(m2_state) # "BOOKING_CONFIRMED"
    /\ m2_sim # "nodes" =>
          \A k \in 1..Len(m2_results) :
              "outcome" \in DOMAIN m2_results[k] => m2_results[k].outcome # "BOOKING_CONFIRMED"

\* C35 witness: a conversation in which both sides wrote until the message limit
\* ended it, still in the phase introduction, and whose result is recorded.
C35_Witness ==
    /\ m2_sim = "loop"
    /\ m2_results # <<>>
    /\ m2_state.phase = "introduction"
    /\ m2_state.conversation_ended
    /\ HasClientMessage(m2_state)
    /\ Len(m2_state.messages) = MessageLimit + 1
    /\ m2_results[Len(m2_results)].outcome \in {"FOLLOW_UP", "CLIENT_DECLINED"}

\* C36: every call of process_email returns a reply: it does not raise, whatever the
\* phase and the text, and it has counted the message in interaction_count.
C36_ProcessEmailReturns ==
    /\ ~w_raised
    /\ w_state.interaction_count > 0 => w_reply # "none"

\* the agency's turn on this state is a call of handle_price_discussion
PriceDiscussionDue(st) ==
    /\ st.messages # <<>>
    /\ ~st.conversation_ended
    /\ WanderoAction(st) = "handle_price_discussion"

\* C37: handle_price_discussion, called on any state in which the agency's turn
\* leads to it, does not raise and appends exactly one agency message; with an offer
\* above 1.2 times the client's maximum budget it leaves discounts_offered as it is.
C37_PriceDiscussionReplies ==
    (m2_sim = "nodes" /\ PriceDiscussionDue(m2_state)) =>
        /\ ~handle_price_discussion_raises(m2_state)
        /\ \A body \in AgentBodies :
              LET after == handle_price_discussion(m2_state, body, COMPANIES[m2_agent.company])
              IN  /\ after.messages = Append(m2_state.messages, AgentSender)
                  /\ TooFarApart(m2_state) => after.discounts_offered = m2_state.discounts_offered

\* C38: a call of StateManager.update_phase on an ended conversation leaves it ended,
\* keeps final_outcome and leaves the phase a terminal one; conversation_ended is
\* true exactly when final_outcome is set.
C38_EndIsFinal ==
    [][/\ m3_state.conversation_ended <=> m3_state.final_outcome # "None"
       /\ m3_state.conversation_ended =>
             /\ m3_state'.conversation_ended
             /\ m3_state'.final_outcome = m3_state.final_outcome
             /\ m3_state'.phase \in M3TerminalPhases]_vars

\* C39: a running conversation loop comes to its end: once the loop is entered it
\* leaves through its while test (or, at the latest, is stopped from outside).
C39_LoopEnds == (m3_pc = "check") ~> (m3_pc \in {"exited", "interrupted", "raised"})

\* how often the id occurs in a sequence of ids
Occurrences(ids, id) == Cardinality({k \in 1..Len(ids) : ids[k] = id})

MessageIds(st) == [k \in 1..Len(st.messages) |-> st.messages[k].id]

\* C40: every email of the agency is appended to the conversation history at most
\* once and answered at most once, whatever the polls return.
C40_ProcessedAtMostOnce ==
    \A id \in 1..MaxInbox :
        /\ Occurrences(MessageIds(m3_state), id) <= 1
        /\ Occurrences(m3_answered, id) <= 1

\* C40 witness: a poll returned an email that had been processed together with a
\* new one, and only the new one was processed and answered.
C40_Witness ==
    /\ m3_pc = "sleep"
    /\ Len(m3_new_emails) = 2
    /\ Len(m3_unprocessed) = 1
    /\ Len(m3_answered) = 2
    /\ \A id \in 1..2 : Occurrences(MessageIds(m3_state), id) = 1

=============================================================================
